---------------------------- MODULE Spec2Model ----------------------------
(***************************************************************************)
(* Streaming data path of the SoapyLMS7 driver                             *)
(* (LimeSuite/SoapyLMS7/Streaming.cpp): stream lifecycle, pending          *)
(* calibration, the multi-channel aligned read, readStream, writeStream    *)
(* and readStreamStatus.  The transport connection (IConnection) and the   *)
(* RF chip are the environment: every status and every segment they may    *)
(* hand back is a nondeterministic input of the action that calls them.    *)
(***************************************************************************)
EXTENDS Integers, Sequences, FiniteSets, TLC

(***************************************************************************)
(* Bounds of the model.                                                    *)
(***************************************************************************)
\* largest numElems a caller passes to readStream / writeStream
MaxElems == 2
\* largest burst length (numElems) given to activateStream
MaxBurst == 2
\* hardware timestamps run over 0..MaxTime, then the transport only times out
MaxTime == 4
\* largest number of samples an overrun drops in front of one segment
MaxGap == 2
\* largest start time (ns) given to activateStream
MaxCmdNs == 2
\* stream handles setupStream may create
MaxStreams == 2
\* size_t is modelled MOD 2^SizeBits
SizeBits == 16
\* hardware timestamp rate of a configured device, in MHz
RateMHz == 2000

SizeMod == 2 ^ SizeBits

\* largest request of a readStream in SpecAlign
MaxSeg == 3

\* largest segment the transport returns in SpecAlign
MaxXfer == 4

\* largest hardware timestamp and largest gap between segments in SpecAlign
MaxAlignTime == 8
MaxAlignGap == 3

\* largest timeoutUs given to readStreamStatus, microseconds
MaxTimeoutUs == 3000
\* time a non-blocking transport poll may take, and by which a sleep may
\* overshoot, microseconds
JitterUs == 100

(***************************************************************************)
(* Program constants.                                                      *)
(***************************************************************************)
SOAPY_SDR_TIMEOUT == -1
SOAPY_SDR_STREAM_ERROR == -2
SOAPY_SDR_CORRUPTION == -3
SOAPY_SDR_OVERFLOW == -4
SOAPY_SDR_NOT_SUPPORTED == -5
SOAPY_SDR_TIME_ERROR == -6

SOAPY_SDR_TX == "TX"
SOAPY_SDR_RX == "RX"
HAS_TIME == "HAS_TIME"
END_BURST == "END_BURST"
ONE_PACKET == "ONE_PACKET"

Min(a, b) == IF a < b THEN a ELSE b

\* unsigned (size_t / uint64_t) subtraction
SizeSub(a, b) == (a - b) % SizeMod

\* the RF channels of the chip and the (direction, channel) pairs
Chans == {0, 1}
Dirs == {SOAPY_SDR_RX, SOAPY_SDR_TX}
Pairs == Dirs \X Chans

Handles == 1 .. MaxStreams
\* transport stream identifiers: at most two per handle
ConnIds == 1 .. (2 * MaxStreams)


(***************************************************************************)
(* State.                                                                  *)
(***************************************************************************)
VARIABLES
    \* ---- device (SoapyLMS7) and transport (IConnection) ----
    streams,          \* handle -> IConnectionStream
    nStreams,         \* handles returned by setupStream so far
    channelsToCal,    \* _channelsToCal: set of <<direction, channel>>
    hwRate,           \* GetHardwareTimestampRate(), MHz; 0 = not configured
    conn,             \* transport stream id -> [open, running, dir, channel]
    nConn,            \* transport stream ids handed out so far
    hwTime,           \* transport stream id -> timestamp of its next sample
    ctlRet,           \* what the last control call returned ("throw" = exception)
    \* ---- observers of the control calls ----
    calSince,         \* pair -> Calibrate calls since the last setupStream naming it
    uncal,            \* pairs registered by setupStream and not calibrated since
    pendingAtEnable,  \* _channelsToCal as it was at the last ControlStream(enable)
    uncalAtEnable,    \* uncal as it was at the last ControlStream(enable)
    lastOp,           \* the last lifecycle call: its arguments and the transport calls it issued
    \* ---- the readStream call in flight (streaming thread) ----
    pc,               \* "idle" | "aligned" | "post"
    rdStream,         \* handle the call works on
    cmdTicks,         \* local cmdTicks of readStream
    numElems,         \* local numElems of _readStreamAligned
    requestTime,      \* local requestTime of _readStreamAligned
    chanIdx,          \* loop variable i of _readStreamAligned
    numWritten,       \* 0-based channel index -> numWritten[i]
    buffs,            \* 0-based channel index -> timestamps of the elements held
    md,               \* StreamMetadata of the call
    alignStatus,      \* what _readStreamAligned returned
    ret,              \* what the last readStream returned
    retFlags,         \* flags output of the last readStream
    \* ---- observers of the readStream call ----
    nReads,           \* transport ReadStream calls issued by the current/last call
    zeroRead,         \* a ReadStream with count 0 was issued by the current/last call
    rdHadCmd,         \* hasCmd as the current/last readStream found it
    overrun,          \* <<L, d>> of a two-segment overrun seen by the call, or <<0, 0>>
    \* ---- observers of the alignment engine, kept by SpecAlign only ----
    rdReq,            \* numElems and flags the caller passed to the current readStream
    firstSeg,         \* timestamp and length of the first segment the call received
    restarted,        \* the call took the "overflow in the middle" branch
    rearmed,          \* activateStream stored a command while the call was in flight
    \* ---- observers of the command ----
    armedK,           \* numElems of the last activateStream
    delivered,        \* elements readStream has returned under that command
    stale             \* the last activateStream named a time the hardware had passed

VARIABLES
    \* ---- the last writeStream call ----
    wrLog,            \* transport WriteStream calls it issued, in order
    wrRet,            \* what it returned
    \* ---- the readStreamStatus call in flight ----
    stPc,             \* "idle" | "poll" | "done"
    stStream,         \* handle the call works on
    stTimeoutUs,      \* its timeoutUs argument
    stElapsed,        \* microseconds since start
    stRet,            \* what the last readStreamStatus returned
    stFlags,          \* flags output of the last readStreamStatus
    \* ---- observer of the readStreamStatus call ----
    stOutcome,        \* "none" | "fail" | "event": what the transport reported
    stPolled,         \* the ReadStreamStatus calls of the last round, in order
    \* ---- threads in setupStream / activateStream and _accessMutex ----
    lockOwner,        \* the thread holding _accessMutex, NoThread if none
    thPc,             \* per thread: where it is in its call
    thArg             \* per thread: the arguments and locals of its call

ioVars == <<wrLog, wrRet, stPc, stStream, stTimeoutUs, stElapsed, stRet,
            stFlags, stOutcome, stPolled>>
ctlVars == <<lastOp, streams, nStreams, channelsToCal, hwRate, conn, nConn,
             ctlRet, calSince, uncal, pendingAtEnable, uncalAtEnable>>
seenVars == <<rdReq, firstSeg, restarted, rearmed>>
rdCore == <<pc, rdStream, cmdTicks, numElems, requestTime, chanIdx,
            numWritten, buffs, md, alignStatus, ret, retFlags, nReads,
            zeroRead, rdHadCmd, overrun>>
rdVars == <<rdCore, seenVars>>
obsVars == <<armedK, delivered, stale>>
lkVars == <<lockOwner, thPc, thArg>>
vars == <<ctlVars, hwTime, rdVars, obsVars, ioVars, lkVars>>

(***************************************************************************)
(* The stream data structure.                                              *)
(***************************************************************************)
\* struct IConnectionStream; a slot no setupStream has filled yet
NoStream ==
    [streamID |-> <<>>, direction |-> SOAPY_SDR_RX, elemSize |-> 0,
     elemMTU |-> 0, enabled |-> FALSE, hasCmd |-> FALSE, flags |-> {},
     timeNs |-> 0, numElems |-> 0]

\* a transport stream id the transport has not handed out
NoConn == [open |-> FALSE, size |-> 0, running |-> FALSE, dir |-> SOAPY_SDR_RX,
           channel |-> 0]

\* StreamMetadata::StreamMetadata()
NewMetadata == [timestamp |-> 0, hasTimestamp |-> FALSE, endOfBurst |-> FALSE]

\* SoapySDR::formatToSize
FormatToSize(format) ==
    CASE format = "CF32" -> 8
      [] format = "CS16" -> 4
      [] format = "CS12" -> 3
      [] OTHER -> 0

\* every format taken as supported
AnyFormat(format) == TRUE

\* the formats setupStream accepts
SupportedFormat(format) == format \in {"CF32", "CS16", "CS12"}

\* SoapySDR::timeNsToTicks: round(timeNs * rate / 1e9), rate in MHz
TimeNsToTicks(timeNs, rate) == (2 * timeNs * rate + 1000) \div 2000

\* the transfer sizes GetStreamSize may report
StreamSizes == {MaxElems - 1, MaxElems}

RECURSIVE SeqToSet(_)
SeqToSet(s) == IF s = <<>> THEN {} ELSE {Head(s)} \cup SeqToSet(Tail(s))

(***************************************************************************)
(* Lifecycle controller: setupStream, activateStream, deactivateStream.    *)
(* All three hold _accessMutex for the whole call, so each is one step.    *)
(***************************************************************************)
\* the pairs a setupStream call registers: one per entry of channelIDs
PairsOf(direction, channelIDs) ==
    {<<direction, channelIDs[k]>> : k \in 1 .. Len(channelIDs)}

\* std::set orders _channelsToCal by (direction, channel); SOAPY_SDR_TX = 0
\* and SOAPY_SDR_RX = 1
PairRank(p) == (IF p[1] = SOAPY_SDR_TX THEN 0 ELSE 2) + p[2]

\* no member of _channelsToCal lacks an _actualBw entry
NoPair == <<"none", 0>>

\* the members the while loop of activateStream calibrates: all of them, or
\* those before the member throwAt at which _actualBw.at() throws
Calibrated(pending, throwAt) ==
    IF throwAt \in pending
    THEN {p \in pending : PairRank(p) < PairRank(throwAt)}
    ELSE pending

\* one Calibrate call per calibrated member
CalibrateAll(cnt, done) ==
    [p \in Pairs |-> IF p \in done THEN cnt[p] + 1 ELSE cnt[p]]

\* a loop that calibrates and leaves the members in the set
KeepPending(pending, throwAt) == pending

\* _channelsToCal when the while loop of activateStream is left
DrainedSet(pending, throwAt) == pending \ Calibrated(pending, throwAt)

\* ControlStream(enable) issued ahead of the calibration loop
PendingBeforeDrain(pending) == pending

\* _channelsToCal at the moment activateStream issues ControlStream(enable)
PendingWhenEnabling(pending) == DrainedSet(pending, NoPair)

\* the emplace loop of setupStream
RegisterChannels(pending, direction, channelIDs) ==
    pending \cup PairsOf(direction, channelIDs)

\* ControlStream succeeds on open transport streams only
AllOpen(c, ids, k) == \A j \in 1 .. Min(k, Len(ids)) : c[ids[j]].open

\* no thread holds _accessMutex
NoThread == 0

\* the application's threads that make control calls
Threads == {1, 2}

\* a thread that is in no call
NoArg == [op |-> "none", h |-> 0, direction |-> SOAPY_SDR_RX,
          channels |-> <<>>, k |-> 0, ids |-> <<>>, pick |-> NoPair,
          threw |-> FALSE]

\* no thread is in a call and _accessMutex is free
LockIdle ==
    /\ lockOwner = NoThread
    /\ thPc = [t \in Threads |-> "idle"]
    /\ thArg = [t \in Threads |-> NoArg]

\* the command fields of a handle no activateStream has written
NoCmd == [flags |-> {}, timeNs |-> 0, numElems |-> 0]

\* no lifecycle call has been made
NoOp == [op |-> "none", h |-> 0, format |-> "", threw |-> FALSE, cmd |-> NoCmd,
         calls |-> <<>>]

\* the ControlStream(id, on) calls of a loop that returns at the first
\* failure, which is the failAt-th call
ControlCalls(ids, failAt, on) ==
    [k \in 1 .. Min(failAt, Len(ids)) |->
        [fn |-> "ControlStream", id |-> ids[k], on |-> on, ok |-> k < failAt]]

\* the CloseStream(id) calls of closeStream
CloseCalls(ids) ==
    [k \in 1 .. Len(ids) |->
        [fn |-> "CloseStream", id |-> ids[k], on |-> FALSE, ok |-> TRUE]]

\* the transport SetupStream calls of setupStream, the failAt-th failing
SetupCalls(first, n, failAt) ==
    [k \in 1 .. Min(failAt, n) |->
        [fn |-> "SetupStream", id |-> IF k < failAt THEN first + k ELSE 0,
         on |-> FALSE, ok |-> k < failAt]]

\* an activateStream that goes on without a configured rate
RateUnchecked(rate) == TRUE

\* GetHardwareTimestampRate() == 0.0 makes activateStream throw
RateConfigured(rate) == rate # 0

\* a command recorded only while the stream is not yet enabled
CmdKeptWhenRunning(hasCmd, enabled) == IF enabled THEN hasCmd ELSE TRUE

\* icstream->hasCmd = true in activateStream
CmdAfterActivate(hasCmd, enabled) == TRUE

\* a command cleared only while the stream is enabled
CmdKeptWhenStopped(hasCmd, enabled) == IF enabled THEN FALSE ELSE hasCmd

\* icstream->hasCmd = false in deactivateStream
CmdAfterDeactivate(hasCmd, enabled) == FALSE

\* enabled set although a ControlStream failed
EnabledRegardless(failAt, n) == TRUE

\* icstream->enabled = true is reached only past the whole enable loop
AllEnabled(failAt, n) == failAt = n + 1

\* the enable loop entered on every activation
AlwaysEnable(enabled) == TRUE

\* if (not icstream->enabled) in activateStream
NeedsEnable(enabled) == ~enabled

\* a closeStream that closes without stopping
NeverDisables(enabled) == FALSE

\* if (icstream->enabled) in closeStream
CloseDisables(enabled) == enabled

\* conn after ControlStream(id, on) has succeeded on the first k ids of ids
ControlFirst(c, ids, k, on) ==
    [id \in ConnIds |->
        IF \E j \in 1 .. Min(k, Len(ids)) : ids[j] = id
        THEN [c[id] EXCEPT !.running = on] ELSE c[id]]

\* the size of the first channel's stream
FirstSize(sizes, n) == sizes[1]

\* "stream->elemMTU = _conn->GetStreamSize(streamID)" in the loop over the
\* channels: the value left is the one of the last channel
LastSize(sizes, n) == sizes[n]

\* IConnection::GetStreamSize and SoapyLMS7::getStreamMTU
GetStreamSize(id) == conn[id].size
getStreamMTU(h) == streams[h].elemMTU

\* SoapyLMS7::setupStream; failAt = Len(channelIDs) + 1: no SetupStream fails;
\* sizes[k] is what GetStreamSize reports for the k-th channel's stream
SetupStream(direction, format, channels, failAt, sizes) ==
    LET channelIDs == IF channels = <<>> THEN <<0>> ELSE channels
        n == Len(channelIDs)
        made == Min(failAt - 1, n)
        ids == [k \in 1 .. made |-> nConn + k]
        h == nStreams + 1
    IN  /\ pc = "idle"
        /\ nStreams < MaxStreams
        /\ nConn + n <= 2 * MaxStreams
        /\ failAt \in 1 .. n + 1
        /\ IF ~SupportedFormat(format)
           THEN /\ ctlRet' = "throw"
                /\ lastOp' = [op |-> "setup", h |-> 0, format |-> format,
                              threw |-> TRUE,
                              cmd |-> NoCmd, calls |-> <<>>]
                /\ UNCHANGED <<streams, nStreams, channelsToCal, conn, nConn,
                               calSince, uncal>>
           ELSE /\ conn' = [id \in ConnIds |->
                              IF id \in nConn + 1 .. nConn + made
                              THEN [open |-> TRUE, size |-> sizes[id - nConn],
                                    running |-> FALSE,
                                    dir |-> direction,
                                    channel |-> channelIDs[id - nConn]]
                              ELSE conn[id]]
                /\ nConn' = nConn + made
                /\ lastOp' = [op |-> "setup", h |-> IF failAt <= n THEN 0 ELSE h,
                              format |-> format,
                              threw |-> failAt <= n, cmd |-> NoCmd,
                              calls |-> SetupCalls(nConn, n, failAt)]
                /\ IF failAt <= n
                   THEN /\ ctlRet' = "throw"
                        /\ UNCHANGED <<streams, nStreams, channelsToCal, calSince,
                                       uncal>>
                   ELSE /\ streams' = [streams EXCEPT ![h] =
                                [streamID |-> ids, direction |-> direction,
                                 elemSize |-> FormatToSize(format),
                                 elemMTU |-> LastSize(sizes, n), enabled |-> FALSE,
                                 hasCmd |-> FALSE, flags |-> {}, timeNs |-> 0,
                                 numElems |-> 0]]
                        /\ nStreams' = h
                        /\ channelsToCal' =
                               RegisterChannels(channelsToCal, direction, channelIDs)
                        /\ calSince' = [p \in Pairs |->
                               IF p \in PairsOf(direction, channelIDs)
                               THEN 0 ELSE calSince[p]]
                        /\ uncal' = uncal \cup PairsOf(direction, channelIDs)
                        /\ ctlRet' = h
        /\ UNCHANGED ioVars
        /\ UNCHANGED <<hwRate, hwTime, pendingAtEnable, uncalAtEnable, rdVars,
                       armedK, delivered, stale>>

\* SoapyLMS7::activateStream; throwAt = NoPair: no _actualBw.at() throws;
\* failAt = Len(streamID) + 1: no ControlStream fails
ActivateArm(h, flags, timeNs, burst, throwAt, failAt) ==
    LET s == streams[h]
        n == Len(s.streamID)
        done == Calibrated(channelsToCal, throwAt)
    IN  /\ h \in 1 .. nStreams
        /\ failAt \in 1 .. n + 1
        /\ lastOp' = [op |-> "activate", h |-> h, format |-> "",
                      threw |-> (~RateConfigured(hwRate)
                                    \/ throwAt \in channelsToCal),
                      cmd |-> [flags |-> flags, timeNs |-> timeNs,
                               numElems |-> burst],
                      calls |-> IF /\ RateConfigured(hwRate)
                                   /\ throwAt \notin channelsToCal
                                   /\ NeedsEnable(s.enabled)
                                THEN ControlCalls(s.streamID, failAt, TRUE)
                                ELSE <<>>]
        /\ IF ~RateConfigured(hwRate)
           THEN /\ ctlRet' = "throw"
                /\ UNCHANGED <<streams, channelsToCal, conn, calSince, uncal,
                               pendingAtEnable, uncalAtEnable, armedK,
                               delivered, stale>>
           ELSE /\ calSince' = CalibrateAll(calSince, done)
                /\ uncal' = uncal \ done
                /\ channelsToCal' = DrainedSet(channelsToCal, throwAt)
                /\ IF throwAt \in channelsToCal
                   THEN /\ ctlRet' = "throw"
                        /\ UNCHANGED <<streams, conn, pendingAtEnable,
                                       uncalAtEnable, armedK, delivered, stale>>
                   ELSE /\ armedK' = burst
                        /\ delivered' = 0
                        /\ stale' = (/\ HAS_TIME \in flags
                                     /\ \A k \in 1 .. n :
                                          TimeNsToTicks(timeNs, hwRate)
                                              < hwTime[s.streamID[k]])
                        /\ IF NeedsEnable(s.enabled)
                           THEN /\ AllOpen(conn, s.streamID, failAt - 1)
                                /\ conn' = ControlFirst(conn, s.streamID,
                                                        failAt - 1, TRUE)
                                /\ pendingAtEnable' =
                                       PendingWhenEnabling(channelsToCal)
                                /\ uncalAtEnable' = uncal'
                                /\ streams' = [streams EXCEPT ![h] =
                                       [s EXCEPT !.flags = flags,
                                                 !.timeNs = timeNs,
                                                 !.numElems = burst,
                                                 !.hasCmd =
                                                   CmdAfterActivate(s.hasCmd,
                                                                    s.enabled),
                                                 !.enabled =
                                                   AllEnabled(failAt, n)]]
                                /\ ctlRet' = IF failAt = n + 1 THEN 0
                                             ELSE SOAPY_SDR_STREAM_ERROR
                           ELSE /\ failAt = n + 1
                                /\ streams' = [streams EXCEPT ![h] =
                                       [s EXCEPT !.flags = flags,
                                                 !.timeNs = timeNs,
                                                 !.numElems = burst,
                                                 !.hasCmd =
                                                   CmdAfterActivate(s.hasCmd,
                                                                    s.enabled)]]
                                /\ ctlRet' = 0
                                /\ UNCHANGED <<conn, pendingAtEnable,
                                               uncalAtEnable>>
        /\ UNCHANGED ioVars
        /\ UNCHANGED <<nStreams, hwRate, nConn, hwTime, rdCore>>

\* activateStream called while no readStream is in flight
ActivateStream(h, flags, timeNs, burst, throwAt, failAt) ==
    /\ pc = "idle"
    /\ ActivateArm(h, flags, timeNs, burst, throwAt, failAt)
    /\ UNCHANGED seenVars

\* SoapyLMS7::deactivateStream; failAt as in ActivateStream
DeactivateStream(h, failAt) ==
    LET s == streams[h]
        n == Len(s.streamID)
    IN  /\ pc = "idle"
        /\ h \in 1 .. nStreams
        /\ failAt \in 1 .. n + 1
        /\ lastOp' = [op |-> "deactivate", h |-> h, format |-> "", threw |-> FALSE,
                      cmd |-> NoCmd,
                      calls |-> IF s.enabled
                                THEN ControlCalls(s.streamID, failAt, FALSE)
                                ELSE <<>>]
        /\ IF s.enabled
           THEN /\ AllOpen(conn, s.streamID, failAt - 1)
                /\ conn' = ControlFirst(conn, s.streamID, failAt - 1, FALSE)
                /\ streams' = [streams EXCEPT ![h] =
                       [s EXCEPT !.hasCmd = CmdAfterDeactivate(s.hasCmd, TRUE),
                                 !.enabled = ~(failAt = n + 1)]]
                /\ ctlRet' = IF failAt = n + 1 THEN 0 ELSE SOAPY_SDR_STREAM_ERROR
           ELSE /\ failAt = n + 1
                /\ streams' = [streams EXCEPT ![h] =
                       [s EXCEPT !.hasCmd = CmdAfterDeactivate(s.hasCmd, FALSE)]]
                /\ ctlRet' = 0
                /\ UNCHANGED conn
        /\ UNCHANGED ioVars
        /\ UNCHANGED <<nStreams, channelsToCal, hwRate, nConn, hwTime, calSince,
                       uncal, pendingAtEnable, uncalAtEnable, rdVars, armedK,
                       delivered, stale>>

\* SoapyLMS7::closeStream: the results of ControlStream and CloseStream are
\* ignored and the IConnectionStream object is left as it is
CloseStream(h) ==
    LET s == streams[h]
    IN  /\ pc = "idle"
        /\ h \in 1 .. nStreams
        /\ lastOp' = [op |-> "close", h |-> h, format |-> "", threw |-> FALSE,
                      cmd |-> NoCmd,
                      calls |-> (IF CloseDisables(s.enabled)
                                 THEN [k \in 1 .. Len(s.streamID) |->
                                         [fn |-> "ControlStream",
                                          id |-> s.streamID[k], on |-> FALSE,
                                          ok |-> conn[s.streamID[k]].open]]
                                 ELSE <<>>) \o CloseCalls(s.streamID)]
        /\ conn' = [id \in ConnIds |->
                       IF id \in SeqToSet(s.streamID)
                       THEN [conn[id] EXCEPT !.open = FALSE, !.running = FALSE]
                       ELSE conn[id]]
        /\ UNCHANGED ioVars
        /\ UNCHANGED <<streams, nStreams, channelsToCal, hwRate, nConn, ctlRet,
                       calSince, uncal, pendingAtEnable, uncalAtEnable, hwTime,
                       rdVars, obsVars>>

(***************************************************************************)
(* Alignment engine.                                                       *)
(***************************************************************************)
\* the whole delta popped, whatever the buffer holds
PopDelta(delta, nw) == delta

\* "std::min<size_t>(desiredHeadTime - oldHeadTime, numWritten)"
PopCount(delta, nw) == Min(delta, nw)

\* static fastForward: the buffer is the sequence of its nw valid elements
FastForward(buff, nw, oldHeadTime, desiredHeadTime) ==
    LET numPop == PopCount(SizeSub(desiredHeadTime, oldHeadTime), nw)
        numMove == nw - numPop
    IN  [buff |-> SubSeq(buff, numPop + 1, numPop + numMove),
         numWritten |-> nw - numPop]

\* the count _readStreamAligned passes to ReadStream: numElems-N in size_t
ReadCount(ne, N) == SizeSub(ne, N)

\* the e timestamps of a segment whose first sample is ts
Segment(ts, e) == [k \in 1 .. e |-> ts + k - 1]

\* the for-loop's increment expression: i += (numWritten[i]==numElems)?1:0
NextIndex(i, nw, ne) == i + (IF nw[i] = ne THEN 1 ELSE 0)

\* an early segment taken as the new head
EarlyRehead(rt, ts) == ts

\* "request time is later, fast forward buffer": requestTime is kept
EarlyHead(rt, ts) == rt

\* an early segment that leaves the target as it was
NoClamp(i, left, ne) == ne

\* if (i == 0 and N != 0) numElems = N: "match size on other channels"
ClampTarget(i, left, ne) == IF i = 0 /\ left # 0 THEN left ELSE ne

(***************************************************************************)
(* One pass of the loop body of _readStreamAligned on a segment of e       *)
(* elements stamped ts: the locals after the pass and, in ret, the value   *)
(* returned from inside the body (0: none).                                *)
(***************************************************************************)
AlignBody(i, nw, bf, rt, ne, ts, e) ==
    LET prevN == nw[i]
        expectedTime == rt + prevN
        N == prevN + e
        filled == SubSeq(bf[i], 1, prevN) \o Segment(ts, e)
        nw1 == [nw EXCEPT ![i] = N]
        bf1 == [bf EXCEPT ![i] = filled]
        early == FastForward(filled, N, ts, rt)
        own == FastForward(filled, N, SizeSub(ts, prevN), ts)
        prior(j) == FastForward(bf[j], nw[j], rt, ts)
    IN  IF rt = 0
        THEN \* unspecified request time: updateHead
             [i |-> i, nw |-> nw1, bf |-> bf1, rt |-> ts, ne |-> e, ret |-> 0]
        ELSE IF expectedTime = ts
        THEN \* good contiguous read
             [i |-> i, nw |-> nw1, bf |-> bf1, rt |-> rt, ne |-> ne, ret |-> 0]
        ELSE IF ts < expectedTime
        THEN IF prevN # 0
             THEN [i |-> i, nw |-> nw1, bf |-> bf1, rt |-> rt, ne |-> ne,
                   ret |-> SOAPY_SDR_CORRUPTION]
             ELSE [i |-> i,
                   nw |-> [nw EXCEPT ![i] = early.numWritten],
                   bf |-> [bf EXCEPT ![i] = early.buff],
                   rt |-> EarlyHead(rt, ts),
                   ne |-> ClampTarget(i, early.numWritten, ne),
                   ret |-> 0]
        ELSE \* overflow in the middle: fast-forward 0..i and start over
             [i |-> 0,
              nw |-> [j \in DOMAIN nw |->
                        IF j < i THEN prior(j).numWritten
                        ELSE IF j = i THEN own.numWritten ELSE nw[j]],
              bf |-> [j \in DOMAIN bf |->
                        IF j < i THEN prior(j).buff
                        ELSE IF j = i THEN own.buff ELSE bf[j]],
              rt |-> ts, ne |-> e, ret |-> 0]

(***************************************************************************)
(* readStream.  It takes no lock; the call is a sequence of steps: the     *)
(* entry (ReadStreamCall), one step per transport ReadStream issued by     *)
(* _readStreamAligned (AlignedData, AlignedTimeout, AlignedError), and the *)
(* code after _readStreamAligned has returned (ReadStreamFinish).          *)
(***************************************************************************)
\* the stream readStream is working on and the channel the loop is at
RdS == streams[rdStream]
RdId == RdS.streamID[chanIdx + 1]
RdChans == 0 .. Len(RdS.streamID) - 1

\* readStream going on to read whether or not a command is pending
NeverWaits(s) == FALSE

\* "wait for a command from activate stream": if (not icstream->hasCmd)
WaitsForCmd(s) == ~s.hasCmd

\* no readStream is in its alignment engine
NoReq == [n |-> 0, flags |-> {}]

\* the call has received no segment
NoSeg == [ts |-> 0, e |-> 0]

\* "handle the one packet flag by clipping"
ClipOnePacket(n, flags, mtu) == IF ONE_PACKET \in flags THEN Min(n, mtu) ELSE n

\* readStream from its entry to the call of _readStreamAligned
ReadStreamCall(h, n, flags) ==
    LET s == streams[h]
        target == ClipOnePacket(n, flags, s.elemMTU)
        ticks == IF HAS_TIME \in s.flags
                 THEN TimeNsToTicks(s.timeNs, hwRate) ELSE 0
        chans == 0 .. Len(s.streamID) - 1
    IN  /\ pc = "idle"
        /\ h \in 1 .. nStreams
        /\ rdStream' = h
        /\ rdHadCmd' = s.hasCmd
        /\ nReads' = 0
        /\ zeroRead' = FALSE
        /\ overrun' = <<0, 0>>
        /\ numWritten' = [c \in chans |-> 0]
        /\ buffs' = [c \in chans |-> <<>>]
        /\ md' = NewMetadata
        /\ chanIdx' = 0
        /\ alignStatus' = SOAPY_SDR_TIMEOUT
        /\ IF WaitsForCmd(s)
           THEN /\ ret' = SOAPY_SDR_TIMEOUT
                /\ pc' = "idle"
                /\ cmdTicks' = 0
                /\ requestTime' = 0
                /\ numElems' = 0
           ELSE /\ pc' = "aligned"
                /\ cmdTicks' = ticks
                /\ requestTime' = ticks
                /\ numElems' = target
                /\ UNCHANGED ret
        /\ UNCHANGED ioVars
        /\ UNCHANGED <<ctlVars, hwTime, retFlags, obsVars>>

\* ReadStream returned 0: _readStreamAligned returns SOAPY_SDR_TIMEOUT
AlignedTimeout ==
    /\ pc = "aligned"
    /\ nReads' = nReads + 1
    /\ zeroRead' = (zeroRead \/ ReadCount(numElems, numWritten[chanIdx]) = 0)
    /\ alignStatus' = SOAPY_SDR_TIMEOUT
    /\ pc' = "post"
    /\ UNCHANGED <<ioVars, lkVars>>
    /\ UNCHANGED <<ctlVars, hwTime, obsVars, rdStream, cmdTicks, numElems,
                   requestTime, chanIdx, numWritten, buffs, md, ret, retFlags,
                   rdHadCmd, overrun, seenVars>>

\* ReadStream returned a negative status: SOAPY_SDR_STREAM_ERROR
AlignedError ==
    /\ pc = "aligned"
    /\ nReads' = nReads + 1
    /\ zeroRead' = (zeroRead \/ ReadCount(numElems, numWritten[chanIdx]) = 0)
    /\ alignStatus' = SOAPY_SDR_STREAM_ERROR
    /\ pc' = "post"
    /\ UNCHANGED <<ioVars, lkVars>>
    /\ UNCHANGED <<ctlVars, hwTime, obsVars, rdStream, cmdTicks, numElems,
                   requestTime, chanIdx, numWritten, buffs, md, ret, retFlags,
                   rdHadCmd, overrun, seenVars>>

\* ReadStream returned e elements, the first stamped gap ticks after the
\* sample the channel had reached (gap > 0: the hardware dropped samples)
AlignedSegment(gap, e) ==
    LET ts == hwTime[RdId] + gap
        prevN == numWritten[chanIdx]
        b == AlignBody(chanIdx, numWritten, buffs, requestTime, numElems, ts, e)
        i2 == NextIndex(b.i, b.nw, b.ne)
    IN  /\ pc = "aligned"
        /\ e \in 1 .. ReadCount(numElems, prevN)
        /\ hwTime' = [hwTime EXCEPT ![RdId] = ts + e]
        /\ nReads' = nReads + 1
        /\ numWritten' = b.nw
        /\ buffs' = b.bf
        /\ overrun' = IF /\ nReads = 1 /\ chanIdx = 1 /\ prevN = 0
                         /\ requestTime = cmdTicks /\ cmdTicks # 0
                         /\ numWritten[0] = e /\ numElems = e
                         /\ ts > requestTime /\ ts - requestTime < e
                      THEN <<e, ts - requestTime>> ELSE overrun
        /\ IF b.ret # 0
           THEN /\ alignStatus' = b.ret
                /\ pc' = "post"
                /\ md' = [md EXCEPT !.timestamp = ts, !.hasTimestamp = TRUE]
                /\ UNCHANGED <<chanIdx, requestTime, numElems>>
           ELSE /\ requestTime' = b.rt
                /\ numElems' = b.ne
                /\ chanIdx' = i2
                /\ IF i2 < Len(RdS.streamID)
                   THEN /\ md' = [md EXCEPT !.timestamp = ts, !.hasTimestamp = TRUE]
                        /\ UNCHANGED <<alignStatus, pc>>
                   ELSE /\ md' = [md EXCEPT !.timestamp = b.rt, !.hasTimestamp = TRUE]
                        /\ alignStatus' = b.ne
                        /\ pc' = "post"
        /\ UNCHANGED ioVars
        /\ UNCHANGED <<ctlVars, obsVars, rdStream, cmdTicks, ret, retFlags,
                       zeroRead, rdHadCmd>>

\* the same with the segment inside the timestamps of Spec
AlignedData(gap, e) ==
    /\ pc = "aligned"
    /\ hwTime[RdId] + gap + e - 1 <= MaxTime
    /\ AlignedSegment(gap, e)

\* the burst bookkeeping counting down by the unclipped status
BurstNoClip(status, left) == status

\* "Clip to within the request size when over": min<size_t>(status, numElems)
BurstClip(status, left) == Min(status, left)

\* a late command that is reported but stays pending
KeepCmdOnTimeError(hasCmd) == hasCmd

\* "our request time is now late, clear command": icstream->hasCmd = false
ClearCmdOnTimeError(hasCmd) == FALSE

\* a satisfied start time that stays in the command
KeepTime(flags) == flags

\* icstream->flags &= ~SOAPY_SDR_HAS_TIME: "clear for next read"
ClearTime(flags) == flags \ {HAS_TIME}

\* a negative engine status that is not returned at once
NeverFailed(status) == FALSE

\* "if (status < 0) return status;" after _readStreamAligned
EngineFailed(status) == status < 0

\* readStream after _readStreamAligned has returned.  The locals of the
\* call die with it; ret and retFlags are what the caller is handed (the
\* timeNs output, ticksToTimeNs(metadata.timestamp), is not kept).
ReadStreamReturn ==
    LET s == RdS
        timed == HAS_TIME \in s.flags /\ md.hasTimestamp
        flags1 == IF timed THEN ClearTime(s.flags) ELSE s.flags
        status == IF s.numElems # 0 THEN BurstClip(alignStatus, s.numElems)
                  ELSE alignStatus
        left == IF s.numElems # 0 THEN s.numElems - status ELSE 0
        done == s.numElems # 0 /\ left = 0
        endOfBurst == md.endOfBurst \/ done
    IN  /\ pc = "post"
        /\ pc' = "idle"
        /\ IF EngineFailed(alignStatus)
           THEN /\ ret' = alignStatus
                /\ UNCHANGED <<streams, retFlags, delivered>>
           ELSE IF timed /\ cmdTicks < md.timestamp
           THEN /\ streams' = [streams EXCEPT ![rdStream] =
                       [s EXCEPT !.hasCmd = ClearCmdOnTimeError(s.hasCmd)]]
                /\ ret' = SOAPY_SDR_TIME_ERROR
                /\ UNCHANGED <<retFlags, delivered>>
           ELSE IF timed /\ cmdTicks # md.timestamp
           THEN /\ ret' = SOAPY_SDR_STREAM_ERROR
                /\ UNCHANGED <<streams, retFlags, delivered>>
           ELSE /\ streams' = [streams EXCEPT ![rdStream] =
                       [s EXCEPT !.flags = flags1, !.numElems = left,
                                 !.hasCmd = IF done THEN FALSE ELSE s.hasCmd]]
                /\ retFlags' = (IF endOfBurst THEN {END_BURST} ELSE {})
                                \cup (IF md.hasTimestamp THEN {HAS_TIME} ELSE {})
                /\ ret' = IF status >= 0 THEN status ELSE SOAPY_SDR_STREAM_ERROR
                /\ delivered' = IF armedK # 0 THEN delivered + status ELSE delivered
        /\ cmdTicks' = 0
        /\ numElems' = 0
        /\ requestTime' = 0
        /\ chanIdx' = 0
        /\ numWritten' = [c \in RdChans |-> 0]
        /\ buffs' = [c \in RdChans |-> <<>>]
        /\ md' = NewMetadata
        /\ alignStatus' = SOAPY_SDR_TIMEOUT
        /\ nReads' = 0
        /\ zeroRead' = FALSE
        /\ overrun' = <<0, 0>>
        /\ UNCHANGED <<ioVars, lkVars>>
        /\ UNCHANGED <<nStreams, channelsToCal, hwRate, conn, nConn, ctlRet,
                       calSince, uncal, pendingAtEnable, uncalAtEnable, lastOp,
                       hwTime, rdStream,
                       rdHadCmd, armedK, stale>>

\* the return of readStream
ReadStreamFinish == ReadStreamReturn /\ UNCHANGED seenVars

\* no streaming call is in flight and none has been made
ReaderIdle ==
    /\ pc = "idle"
    /\ rdStream = 1
    /\ cmdTicks = 0
    /\ numElems = 0
    /\ requestTime = 0
    /\ chanIdx = 0
    /\ numWritten = [c \in {0, 1} |-> 0]
    /\ buffs = [c \in {0, 1} |-> <<>>]
    /\ md = NewMetadata
    /\ alignStatus = SOAPY_SDR_TIMEOUT
    /\ ret = 0
    /\ retFlags = {}
    /\ nReads = 0
    /\ zeroRead = FALSE
    /\ rdHadCmd = FALSE
    /\ overrun = <<0, 0>>
    /\ rdReq = NoReq
    /\ firstSeg = NoSeg
    /\ restarted = FALSE
    /\ rearmed = FALSE
    /\ armedK = 0
    /\ delivered = 0
    /\ stale = FALSE
    /\ wrLog = <<>>
    /\ wrRet = 0
    /\ stPc = "idle"
    /\ stStream = 1
    /\ stTimeoutUs = 0
    /\ stElapsed = 0
    /\ stRet = 0
    /\ stFlags = {}
    /\ stOutcome = "none"
    /\ stPolled = <<>>

(***************************************************************************)
(* Spec: one application thread driving a two-channel RX stream that       *)
(* setupStream(SOAPY_SDR_RX, "CS16", {0, 1}) has just returned.            *)
(***************************************************************************)
InitRead ==
    /\ streams = [h \in Handles |->
            IF h = 1
            THEN [streamID |-> <<1, 2>>, direction |-> SOAPY_SDR_RX,
                  elemSize |-> FormatToSize("CS16"), elemMTU |-> MaxElems - 1,
                  enabled |-> FALSE, hasCmd |-> FALSE, flags |-> {},
                  timeNs |-> 0, numElems |-> 0]
            ELSE NoStream]
    /\ nStreams = 1
    /\ channelsToCal = {<<SOAPY_SDR_RX, 0>>, <<SOAPY_SDR_RX, 1>>}
    /\ hwRate \in {0, RateMHz}
    /\ conn = [id \in ConnIds |->
                 IF id \in {1, 2}
                 THEN [open |-> TRUE, size |-> MaxElems - 1,
                       running |-> FALSE, dir |-> SOAPY_SDR_RX,
                       channel |-> id - 1]
                 ELSE NoConn]
    /\ nConn = 2
    /\ hwTime = [id \in ConnIds |-> 0]
    /\ ctlRet = 1
    /\ calSince = [p \in Pairs |-> 0]
    /\ uncal = {<<SOAPY_SDR_RX, 0>>, <<SOAPY_SDR_RX, 1>>}
    /\ pendingAtEnable = {}
    /\ uncalAtEnable = {}
    /\ lastOp = NoOp
    /\ ReaderIdle
    /\ LockIdle

Init == InitRead

\* the application's calls; a start time is given with HAS_TIME only, and
\* a ControlStream may fail on any channel
Activate ==
    /\ UNCHANGED lkVars
    /\ \E h \in Handles, burst \in 0 .. MaxBurst,
          throwAt \in channelsToCal \cup {NoPair} :
           \E failAt \in 1 .. (Len(streams[h].streamID) + 1) :
               \/ ActivateStream(h, {}, 0, burst, throwAt, failAt)
               \/ \E timeNs \in 0 .. MaxCmdNs :
                     ActivateStream(h, {HAS_TIME}, timeNs, burst, throwAt, failAt)

Deactivate ==
    /\ UNCHANGED lkVars
    /\ \E h \in Handles :
           \E failAt \in 1 .. (Len(streams[h].streamID) + 1) :
               DeactivateStream(h, failAt)

ReadCall ==
    /\ UNCHANGED <<lkVars, seenVars>>
    /\ \E h \in Handles, n \in 0 .. MaxElems, flags \in SUBSET {ONE_PACKET} :
           ReadStreamCall(h, n, flags)

ReadData ==
    /\ UNCHANGED <<lkVars, seenVars>>
    /\ \E gap \in 0 .. MaxGap, e \in 1 .. MaxElems : AlignedData(gap, e)

Next ==
    \/ Activate
    \/ Deactivate
    \/ ReadCall
    \/ ReadData
    \/ AlignedTimeout
    \/ AlignedError
    \/ ReadStreamFinish

Spec == Init /\ [][Next]_vars

(***************************************************************************)
(* Properties.                                                             *)
(***************************************************************************)
\* _readStreamAligned has returned a count to readStream
AlignedOk == pc = "post" /\ alignStatus >= 0

\* C1: whenever the aligned read returns a count, the first element of every
\* channel's buffer carries the timestamp the call returns in the metadata.
C1_AlignedHeads ==
    AlignedOk =>
        \A c \in RdChans :
            /\ numWritten[c] >= 1
            /\ buffs[c][1] = md.timestamp

\* C2: whenever the aligned read returns a count n, every channel holds
\* exactly n elements and the metadata timestamp is the final requestTime.
C2_AlignedCounts ==
    AlignedOk =>
        /\ \A c \in RdChans : numWritten[c] = alignStatus
        /\ md.timestamp = requestTime

\* C3: once channel 0 has returned L elements at the commanded tick T and
\* channel 1 then L elements at T+d (0 < d < L), the aligned read issues no
\* zero-length ReadStream and, when it returns a count, returns L-d with both
\* channels holding L-d elements that start at T+d.
C3_OverrunConverges ==
    overrun # <<0, 0>> =>
        /\ ~zeroRead
        /\ AlignedOk =>
              /\ alignStatus = overrun[1] - overrun[2]
              /\ \A c \in RdChans :
                    /\ numWritten[c] = overrun[1] - overrun[2]
                    /\ buffs[c][1] = cmdTicks + overrun[2]

\* the stream of Spec
Rx == streams[1]

\* a step that is the return of a readStream that went through the
\* alignment engine
IsFinish == pc = "post" /\ pc' = "idle"

\* a step that is the entry of a readStream: the only step taken between
\* calls that changes the reader's variables
IsReadCall == pc = "idle" /\ rdVars' # rdVars

\* C4: under a burst command of K elements the counts readStream returns
\* add up to at most K, END_BURST is reported by exactly the call that brings
\* the sum to K, that call clears hasCmd, and every readStream entered after
\* it (before a re-activation) returns Timeout.
C4_BurstBudget ==
    /\ [](armedK > 0 =>
            /\ delivered <= armedK
            /\ Rx.hasCmd => delivered + Rx.numElems = armedK
            /\ delivered = armedK => ~Rx.hasCmd)
    /\ [][(IsFinish /\ armedK > 0 /\ ret' >= 0) =>
            /\ delivered' = delivered + ret'
            /\ ret' >= 1
            /\ (END_BURST \in retFlags') <=> (delivered' = armedK)]_vars
    /\ [][(IsReadCall /\ armedK > 0 /\ delivered = armedK /\ ~Rx.hasCmd) =>
            (pc' = "idle" /\ ret' = SOAPY_SDR_TIMEOUT)]_vars

\* a burst has been delivered over more than one readStream call
C4_Witness ==
    /\ armedK = MaxBurst /\ delivered = armedK /\ pc = "idle"
    /\ ret >= 1 /\ ret < armedK /\ END_BURST \in retFlags /\ ~Rx.hasCmd

\* C5: under a HAS_TIME command whose tick time the hardware had already
\* passed, a readStream whose aligned read returns a count returns TimeError
\* and clears hasCmd, and the readStream entered next returns Timeout.
C5_LateCommand ==
    /\ [][(IsFinish /\ stale /\ alignStatus >= 0) =>
            (ret' = SOAPY_SDR_TIME_ERROR /\ ~Rx.hasCmd')]_vars
    /\ [][(IsReadCall /\ stale /\ ret = SOAPY_SDR_TIME_ERROR /\ ~Rx.hasCmd) =>
            (pc' = "idle" /\ ret' = SOAPY_SDR_TIMEOUT)]_vars

\* a late command has been answered with TimeError
C5_Witness ==
    /\ stale /\ pc = "idle" /\ rdHadCmd /\ ret = SOAPY_SDR_TIME_ERROR
    /\ ~Rx.hasCmd

\* C6: a readStream entered while hasCmd is false returns Timeout at once:
\* it never enters the alignment engine, so it issues no transport ReadStream
\* and writes nothing to the caller's buffers.
C6_NoCmdNoData ==
    /\ [](~rdHadCmd => (pc = "idle" /\ nReads = 0
                        /\ \A c \in DOMAIN buffs : buffs[c] = <<>>))
    /\ [][(IsReadCall /\ ~streams[rdStream'].hasCmd) =>
            (pc' = "idle" /\ ret' = SOAPY_SDR_TIMEOUT /\ hwTime' = hwTime
             /\ nReads' = 0)]_vars

\* a readStream has timed out on a stream whose burst had completed
C6_Witness ==
    /\ ~rdHadCmd /\ pc = "idle" /\ ret = SOAPY_SDR_TIMEOUT
    /\ armedK > 0 /\ delivered = armedK /\ ~Rx.hasCmd


(***************************************************************************)
(* SpecCal: the lifecycle controller alone.  No stream exists at first;    *)
(* the application sets up, activates, deactivates and closes streams.     *)
(***************************************************************************)
InitCal ==
    /\ streams = [h \in Handles |-> NoStream]
    /\ nStreams = 0
    /\ channelsToCal = {}
    /\ hwRate \in {0, RateMHz}
    /\ conn = [id \in ConnIds |-> NoConn]
    /\ nConn = 0
    /\ hwTime = [id \in ConnIds |-> 0]
    /\ ctlRet = 0
    /\ calSince = [p \in Pairs |-> 0]
    /\ uncal = {}
    /\ pendingAtEnable = {}
    /\ uncalAtEnable = {}
    /\ lastOp = NoOp
    /\ ReaderIdle
    /\ LockIdle

\* the stream sizes the transport reports for the channels of one setupStream:
\* the same for both, or a smaller one for the last channel
SetupSizes == {<<MaxElems, MaxElems>>, <<MaxElems, MaxElems - 1>>}

Setup ==
    /\ UNCHANGED lkVars
    /\ \E direction \in Dirs, format \in {"CS16", "CS8"},
          channels \in {<<>>, <<0>>, <<1>>, <<0, 1>>}, failAt \in 1 .. 3,
          sizes \in SetupSizes :
           SetupStream(direction, format, channels, failAt, sizes)

ActivateCal ==
    /\ UNCHANGED lkVars
    /\ \E h \in Handles, throwAt \in channelsToCal \cup {NoPair},
          failAt \in 1 .. 3 :
           ActivateStream(h, {}, 0, 0, throwAt, failAt)

DeactivateCal ==
    /\ UNCHANGED lkVars
    /\ \E h \in Handles, failAt \in 1 .. 3 : DeactivateStream(h, failAt)

Close ==
    /\ UNCHANGED lkVars
    /\ \E h \in Handles : CloseStream(h)

NextCal ==
    \/ Setup
    \/ ActivateCal
    \/ DeactivateCal
    \/ Close

SpecCal == InitCal /\ [][NextCal]_vars

\* the (direction, channel) pairs handle h was set up with
HandlePairs(h) ==
    {<<streams[h].direction, conn[id].channel>> :
        id \in SeqToSet(streams[h].streamID)}

\* C7: a (direction, channel) pair is calibrated at most once after a
\* setupStream that registered it, until another setupStream registers it
\* again, however many activateStream calls are made.
C7_CalibratedOnce == \A p \in Pairs : calSince[p] <= 1

\* two enabled streams share a pair that was calibrated once
C7_Witness ==
    /\ nStreams = 2 /\ streams[1].enabled /\ streams[2].enabled
    /\ \E p \in HandlePairs(1) \cap HandlePairs(2) : calSince[p] = 1

\* C8: whenever activateStream issues ControlStream(enable), _channelsToCal
\* is empty and every pair a setupStream registered has been calibrated
\* since that registration.
C8_CalibratedBeforeEnable == pendingAtEnable = {} /\ uncalAtEnable = {}

\* a two-channel stream has been enabled after both of its pairs were
\* calibrated
C8_Witness ==
    \E h \in 1 .. nStreams :
        /\ streams[h].enabled /\ Len(streams[h].streamID) = 2
        /\ \A p \in HandlePairs(h) : calSince[p] = 1


(***************************************************************************)
(* writeStream.                                                            *)
(***************************************************************************)
\* later channels asked to take the caller's numElems
WriteRequested(status, n) == n

\* the count writeStream passes to WriteStream for channels 1..N-1
WriteCount(status, n) == status

\* least member of a non-empty set of integers
MinOf(S) == CHOOSE k \in S : \A j \in S : k <= j

\* SoapyLMS7::writeStream; st[k] is what the transport's WriteStream returns
\* for the k-th channel if it is called: the elements accepted, 0, or -1
WriteStream(h, n, flags, timeNs, st) ==
    LET s == streams[h]
        ids == s.streamID
        N == Len(ids)
        metadata == [timestamp |-> TimeNsToTicks(timeNs, hwRate),
                     hasTimestamp |-> HAS_TIME \in flags,
                     endOfBurst |-> END_BURST \in flags]
        status == st[1]
        Count(k) == IF k = 1 THEN n ELSE WriteCount(status, n)
        bad == {k \in 2 .. N : st[k] # status}
        last == IF status <= 0 THEN 1
                ELSE IF bad = {} THEN N ELSE MinOf(bad)
    IN  /\ pc = "idle" /\ stPc # "poll"
        /\ h \in 1 .. nStreams
        /\ N >= 1
        /\ \A k \in 1 .. N : st[k] <= Count(k)
        /\ wrLog' = [k \in 1 .. last |->
                        [id |-> ids[k], count |-> Count(k), status |-> st[k],
                         md |-> metadata]]
        /\ wrRet' = IF status = 0 THEN SOAPY_SDR_TIMEOUT
                    ELSE IF status < 0 THEN SOAPY_SDR_STREAM_ERROR
                    ELSE IF bad # {} THEN SOAPY_SDR_CORRUPTION
                    ELSE status
        /\ UNCHANGED <<ctlVars, hwTime, rdVars, obsVars, stPc, stStream,
                       stTimeoutUs, stElapsed, stRet, stFlags, stOutcome,
                       stPolled>>

(***************************************************************************)
(* SpecWrite: the streaming thread writing to a TX stream of one or two    *)
(* channels that setupStream has returned.                                 *)
(***************************************************************************)
InitWrite ==
    /\ \E N \in 1 .. 2 :
        /\ streams = [h \in Handles |->
                IF h = 1
                THEN [streamID |-> [k \in 1 .. N |-> k],
                      direction |-> SOAPY_SDR_TX,
                      elemSize |-> FormatToSize("CS16"), elemMTU |-> MaxElems,
                      enabled |-> FALSE, hasCmd |-> FALSE, flags |-> {},
                      timeNs |-> 0, numElems |-> 0]
                ELSE NoStream]
        /\ conn = [id \in ConnIds |->
                     IF id \in 1 .. N
                     THEN [open |-> TRUE, size |-> MaxElems, running |-> FALSE,
                           dir |-> SOAPY_SDR_TX, channel |-> id - 1]
                     ELSE NoConn]
        /\ nConn = N
        /\ channelsToCal = {<<SOAPY_SDR_TX, k - 1>> : k \in 1 .. N}
        /\ uncal = {<<SOAPY_SDR_TX, k - 1>> : k \in 1 .. N}
    /\ nStreams = 1
    /\ hwRate \in {0, RateMHz}
    /\ hwTime = [id \in ConnIds |-> 0]
    /\ ctlRet = 1
    /\ calSince = [p \in Pairs |-> 0]
    /\ pendingAtEnable = {}
    /\ uncalAtEnable = {}
    /\ lastOp = NoOp
    /\ ReaderIdle
    /\ LockIdle

WriteCall ==
    /\ UNCHANGED lkVars
    /\ \E h \in Handles, n \in 0 .. MaxElems,
          flags \in SUBSET {HAS_TIME, END_BURST}, timeNs \in 0 .. MaxCmdNs,
          st \in [1 .. 2 -> -1 .. MaxElems] :
           WriteStream(h, n, flags, timeNs, st)

NextWrite == WriteCall

SpecWrite == InitWrite /\ [][NextWrite]_vars

\* C9: writeStream writes channel 0 first and then the later channels in
\* order, each with the count channel 0 accepted; it
\* returns that count only when every channel accepted it, Corruption when a
\* later channel accepted another count, and Timeout (channel 0 accepted 0)
\* or StreamError (channel 0 failed) with channel 0 the only channel written.
C9_WriteAlignment ==
    wrLog # <<>> =>
        LET ids == streams[1].streamID
            n == wrLog[1].status
        IN  /\ Len(wrLog) <= Len(ids)
            /\ \A k \in 1 .. Len(wrLog) : wrLog[k].id = ids[k]
            /\ \A k \in 2 .. Len(wrLog) : wrLog[k].count = n
            /\ n = 0 => (wrRet = SOAPY_SDR_TIMEOUT /\ Len(wrLog) = 1)
            /\ n < 0 => (wrRet = SOAPY_SDR_STREAM_ERROR /\ Len(wrLog) = 1)
            /\ (\E k \in 2 .. Len(wrLog) : wrLog[k].status # n) =>
                    wrRet = SOAPY_SDR_CORRUPTION
            /\ wrRet >= 0 =>
                    /\ wrRet = n
                    /\ Len(wrLog) = Len(ids)
                    /\ \A k \in 1 .. Len(wrLog) : wrLog[k].status = n

\* channel 0 accepted fewer elements than asked and channel 1 fewer still
C9_Witness ==
    /\ Len(wrLog) = 2 /\ wrLog[1].count = MaxElems
    /\ wrLog[1].status = MaxElems - 1 /\ wrLog[2].status = 0
    /\ wrRet = SOAPY_SDR_CORRUPTION


(***************************************************************************)
(* readStreamStatus.  Time is counted in microseconds since the call       *)
(* started; one step is one round of the while loop.                       *)
(***************************************************************************)
\* a check that also fires when the elapsed time equals the timeout
ExpiredOrEqual(now, timeoutUs) == now >= timeoutUs

\* the timeout check of the loop: seconds.count() > timeoutUs/1e6
Expired(now, timeoutUs) == now > timeoutUs

\* what the loop asks sleep_for to sleep between rounds
SleepUs(timeoutUs) ==
    IF timeoutUs >= 2000 THEN 1000 ELSE 1 + timeoutUs \div 2

\* the timeouts the application passes
StatusTimeouts == {0, 1, 500, 1999, 2000, MaxTimeoutUs}

\* time one transport ReadStreamStatus may take: it blocks for up to
\* timeoutUs/1000 milliseconds
PollUs(timeoutUs) == {0, JitterUs} \cup {d \in {1000} : timeoutUs >= 1000}

\* StreamMetadata as ReadStreamStatus may fill it in
StatusEvents ==
    [endOfBurst : BOOLEAN, lateTimestamp : BOOLEAN, packetDropped : BOOLEAN,
     hasTimestamp : BOOLEAN]

\* entry of SoapyLMS7::readStreamStatus
ReadStreamStatusCall(h, timeoutUs) ==
    /\ pc = "idle" /\ stPc # "poll"
    /\ h \in 1 .. nStreams
    /\ stPc' = "poll"
    /\ stStream' = h
    /\ stTimeoutUs' = timeoutUs
    /\ stElapsed' = 0
    /\ stFlags' = {}
    /\ stOutcome' = "none"
    /\ stPolled' = <<>>
    /\ UNCHANGED <<ctlVars, hwTime, rdVars, obsVars, wrLog, wrRet, stRet>>

\* a report that is no event; on a TX stream it may have packetDropped set
NoEvent(pd) ==
    [endOfBurst |-> FALSE, lateTimestamp |-> FALSE, packetDropped |-> pd,
     hasTimestamp |-> FALSE]

\* the first k channels of ids polled, each reporting NoEvent(pd)
QuietReports(ids, k, pd) ==
    [j \in 1 .. k |->
        [id |-> ids[j], ok |-> TRUE, eperm |-> FALSE, ev |-> NoEvent(pd)]]

\* a dropped packet reported before a late timestamp
OverflowFirst(metadata) ==
    IF metadata.packetDropped THEN SOAPY_SDR_OVERFLOW
    ELSE IF metadata.lateTimestamp THEN SOAPY_SDR_TIME_ERROR
    ELSE 0

\* found: the value returned for the metadata of the event
StatusResult(metadata) ==
    IF metadata.lateTimestamp THEN SOAPY_SDR_TIME_ERROR
    ELSE IF metadata.packetDropped THEN SOAPY_SDR_OVERFLOW
    ELSE 0

\* one round of the while loop in which the ReadStreamStatus of the k-th
\* channel fails, the channels before it having reported no event
StatusFail(k, pd, eperm) ==
    LET s == streams[stStream]
    IN  /\ stPc = "poll"
        /\ k \in 1 .. Len(s.streamID)
        /\ pd => s.direction = SOAPY_SDR_TX
        /\ stPc' = "done"
        /\ stOutcome' = "fail"
        /\ stPolled' = Append(QuietReports(s.streamID, k - 1, pd),
                              [id |-> s.streamID[k], ok |-> FALSE,
                               eperm |-> eperm, ev |-> NoEvent(FALSE)])
        /\ stRet' = IF eperm THEN SOAPY_SDR_NOT_SUPPORTED ELSE SOAPY_SDR_TIMEOUT
        /\ UNCHANGED <<ctlVars, hwTime, rdVars, obsVars, wrLog, wrRet,
                       stStream, stTimeoutUs, stElapsed, stFlags>>

\* one round in which the ReadStreamStatus of the k-th channel reports ev,
\* the channels before it having reported no event
StatusFound(k, pd, ev) ==
    LET s == streams[stStream]
        metadata == IF s.direction = SOAPY_SDR_TX
                    THEN [ev EXCEPT !.packetDropped = FALSE] ELSE ev
    IN  /\ stPc = "poll"
        /\ k \in 1 .. Len(s.streamID)
        /\ pd => s.direction = SOAPY_SDR_TX
        /\ metadata.endOfBurst \/ metadata.lateTimestamp
              \/ metadata.packetDropped
        /\ stPc' = "done"
        /\ stOutcome' = "event"
        /\ stPolled' = Append(QuietReports(s.streamID, k - 1, pd),
                              [id |-> s.streamID[k], ok |-> TRUE,
                               eperm |-> FALSE, ev |-> ev])
        /\ stFlags' = {f \in {END_BURST} : metadata.endOfBurst}
                         \cup {f \in {HAS_TIME} : metadata.hasTimestamp}
        /\ stRet' = StatusResult(metadata)
        /\ UNCHANGED <<ctlVars, hwTime, rdVars, obsVars, wrLog, wrRet,
                       stStream, stTimeoutUs, stElapsed>>

\* one round in which every channel is polled and none reports anything:
\* the polls take dur, then the timeout check, then a sleep that may
\* overshoot by over
StatusQuiet(dur, over, pd) ==
    LET now == stElapsed + dur
        s == streams[stStream]
    IN  /\ stPc = "poll"
        /\ pd => s.direction = SOAPY_SDR_TX
        /\ stPolled' = QuietReports(s.streamID, Len(s.streamID), pd)
        /\ IF Expired(now, stTimeoutUs)
           THEN /\ stPc' = "done"
                /\ stRet' = SOAPY_SDR_TIMEOUT
                /\ stElapsed' = now
           ELSE /\ stElapsed' = now + SleepUs(stTimeoutUs) + over
                /\ UNCHANGED <<stPc, stRet>>
        /\ UNCHANGED <<ctlVars, hwTime, rdVars, obsVars, wrLog, wrRet,
                       stStream, stTimeoutUs, stFlags, stOutcome>>

(***************************************************************************)
(* SpecStatus: the streaming thread polling the status of a stream of one  *)
(* or two channels.  The thread keeps running: a round that can be taken   *)
(* is eventually taken.                                                    *)
(***************************************************************************)
InitStatus ==
    /\ \E N \in 1 .. 2, direction \in Dirs :
        /\ streams = [h \in Handles |->
                IF h = 1
                THEN [streamID |-> [k \in 1 .. N |-> k],
                      direction |-> direction,
                      elemSize |-> FormatToSize("CS16"), elemMTU |-> MaxElems,
                      enabled |-> FALSE, hasCmd |-> FALSE, flags |-> {},
                      timeNs |-> 0, numElems |-> 0]
                ELSE NoStream]
        /\ conn = [id \in ConnIds |->
                     IF id \in 1 .. N
                     THEN [open |-> TRUE, size |-> MaxElems, running |-> FALSE,
                           dir |-> direction, channel |-> id - 1]
                     ELSE NoConn]
        /\ nConn = N
        /\ channelsToCal = {<<direction, k - 1>> : k \in 1 .. N}
        /\ uncal = {<<direction, k - 1>> : k \in 1 .. N}
    /\ nStreams = 1
    /\ hwRate \in {0, RateMHz}
    /\ hwTime = [id \in ConnIds |-> 0]
    /\ ctlRet = 1
    /\ calSince = [p \in Pairs |-> 0]
    /\ pendingAtEnable = {}
    /\ uncalAtEnable = {}
    /\ lastOp = NoOp
    /\ ReaderIdle
    /\ LockIdle

StatusCall ==
    /\ UNCHANGED lkVars
    /\ \E h \in Handles, timeoutUs \in StatusTimeouts :
           ReadStreamStatusCall(h, timeoutUs)

StatusRound ==
    /\ UNCHANGED lkVars
    /\ \/ \E k \in 1 .. 2, pd \in BOOLEAN, eperm \in BOOLEAN :
             StatusFail(k, pd, eperm)
       \/ \E k \in 1 .. 2, pd \in BOOLEAN, ev \in StatusEvents :
             StatusFound(k, pd, ev)
       \/ \E d1 \in PollUs(stTimeoutUs), d2 \in PollUs(stTimeoutUs),
             over \in {0, JitterUs}, pd \in BOOLEAN :
             StatusQuiet(IF Len(streams[stStream].streamID) = 2
                         THEN d1 + d2 ELSE d1, over, pd)

NextStatus ==
    \/ StatusCall
    \/ StatusRound

SpecStatus == InitStatus /\ [][NextStatus]_vars /\ WF_vars(StatusRound)

\* C10: a readStreamStatus call always returns; when no ReadStreamStatus
\* failed or reported an event it returns Timeout, and only after more than
\* timeoutUs microseconds have elapsed.
C10_StatusTerminates ==
    /\ (stPc = "poll") ~> (stPc = "done")
    /\ [](stPc = "done" /\ stOutcome = "none" =>
            (stRet = SOAPY_SDR_TIMEOUT /\ stElapsed > stTimeoutUs))

\* a call with timeoutUs = 500 has timed out after sleeping between rounds
C10_Witness ==
    /\ stPc = "done" /\ stOutcome = "none" /\ stTimeoutUs = 500
    /\ stRet = SOAPY_SDR_TIMEOUT /\ stElapsed >= 2 * SleepUs(500)


\* ---------------------------------------------------------------------
\* Lifecycle calls seen through lastOp
\* ---------------------------------------------------------------------

\* a step of one of setupStream, activateStream, deactivateStream, closeStream
LifecycleStep == UNCHANGED <<rdVars, ioVars, hwTime>>

IsSetup == lastOp'.op = "setup" /\ LifecycleStep

IsActivate == lastOp'.op = "activate" /\ LifecycleStep

IsDeactivate == lastOp'.op = "deactivate" /\ LifecycleStep

IsClose == lastOp'.op = "close" /\ LifecycleStep

\* C11: an activateStream made while the hardware timestamp rate is zero
\* throws and changes nothing: no pair is calibrated, the pending
\* calibration set keeps its members, no command is recorded, enabled is
\* as it was and no ControlStream call is issued.
C11_RateZeroChangesNothing ==
    [][(IsActivate /\ hwRate = 0) =>
          /\ lastOp'.threw
          /\ lastOp'.calls = <<>>
          /\ UNCHANGED <<streams, nStreams, channelsToCal, calSince, uncal,
                         conn, nConn, pendingAtEnable, uncalAtEnable>>]_vars

\* activateStream has thrown for a set-up stream while pairs were pending
C11_Witness ==
    /\ lastOp.op = "activate"
    /\ hwRate = 0
    /\ lastOp.threw
    /\ lastOp.h \in 1 .. nStreams
    /\ channelsToCal # {}
    /\ \A p \in channelsToCal : calSince[p] = 0

\* C12: every activateStream that passes the rate check and returns
\* records the command (flags, timeNs, numElems) and sets hasCmd, whether
\* the stream was already enabled or not and whether ControlStream(enable)
\* succeeded or not; a readStream called while hasCmd is set goes on to
\* the aligned read instead of returning Timeout at once, so re-activating
\* a running stream whose burst has completed lets it deliver again.
C12_CommandRecorded ==
    [][/\ (IsActivate /\ ~lastOp'.threw) =>
            /\ hwRate # 0
            /\ streams'[lastOp'.h].hasCmd
            /\ streams'[lastOp'.h].flags = lastOp'.cmd.flags
            /\ streams'[lastOp'.h].timeNs = lastOp'.cmd.timeNs
            /\ streams'[lastOp'.h].numElems = lastOp'.cmd.numElems
       /\ (IsActivate /\ hwRate # 0) =>
            (lastOp'.threw => channelsToCal # {})
       /\ (IsReadCall /\ streams[rdStream'].hasCmd) => pc' = "aligned"]_vars

\* a stream that was already enabled and had used up its command has been
\* activated again and a readStream on it is in its aligned read
C12_Witness ==
    /\ lastOp.op = "activate"
    /\ ~lastOp.threw
    /\ lastOp.calls = <<>>
    /\ lastOp.cmd.numElems > 0
    /\ streams[lastOp.h].enabled
    /\ pc = "aligned"
    /\ rdStream = lastOp.h
    /\ rdHadCmd

\* every transport call of a log succeeded
AllOk(calls) == \A k \in 1 .. Len(calls) : calls[k].ok

\* C13: every deactivateStream clears hasCmd, on a stream that is not
\* enabled and when a ControlStream(disable) fails too; enabled becomes
\* false only when the disable of every channel succeeded; and as long as
\* deactivateStream is the last lifecycle call made on a stream a
\* readStream on it returns Timeout at once and writes nothing.
C13_DeactivateClearsCmd ==
    [][/\ IsDeactivate =>
            /\ ~streams'[lastOp'.h].hasCmd
            /\ streams'[lastOp'.h].enabled =
                 (/\ streams[lastOp'.h].enabled
                  /\ ~(/\ AllOk(lastOp'.calls)
                       /\ Len(lastOp'.calls) = Len(streams[lastOp'.h].streamID)))
            /\ (~streams[lastOp'.h].enabled => lastOp'.calls = <<>>)
       /\ (IsReadCall /\ lastOp.op = "deactivate" /\ rdStream' = lastOp.h) =>
            /\ pc' = "idle"
            /\ ret' = SOAPY_SDR_TIMEOUT
            /\ \A c \in DOMAIN buffs' : buffs'[c] = <<>>]_vars

\* a deactivateStream whose ControlStream(disable) failed left the stream
\* enabled without a command, and a readStream on it has returned Timeout
C13_Witness ==
    /\ lastOp.op = "deactivate"
    /\ ~AllOk(lastOp.calls)
    /\ streams[lastOp.h].enabled
    /\ ~streams[lastOp.h].hasCmd
    /\ rdStream = lastOp.h
    /\ pc = "idle"
    /\ ~rdHadCmd
    /\ nReads = 0
    /\ ret = SOAPY_SDR_TIMEOUT

\* C14: a setupStream whose format is none of CF32, CS16 and CS12 throws
\* before any transport SetupStream call is made, returns no handle and
\* leaves the pending calibration set, the streams and the connections as
\* they were.
C14_UnsupportedFormat ==
    [][(IsSetup /\ lastOp'.format \notin {"CF32", "CS16", "CS12"}) =>
          /\ lastOp'.threw
          /\ lastOp'.h = 0
          /\ lastOp'.calls = <<>>
          /\ UNCHANGED <<streams, nStreams, channelsToCal, conn, nConn,
                         calSince, uncal>>]_vars

\* setupStream has thrown on a format it does not support while an earlier
\* stream's pairs were pending
C14_Witness ==
    /\ lastOp.op = "setup"
    /\ lastOp.format = "CS8"
    /\ lastOp.threw
    /\ nStreams >= 1
    /\ channelsToCal # {}
    /\ nConn + 2 <= 2 * MaxStreams

\* C15: closeStream never fails and releases every channel. On an enabled
\* stream it first calls ControlStream(disable) on every channel, whatever
\* the calls return, and then CloseStream once on every channel, every
\* disable before every close; on a stream that is not enabled it makes
\* the CloseStream calls only.
C15_CloseReleasesAll ==
    [][IsClose =>
          LET s == streams[lastOp'.h]
              n == Len(s.streamID)
              calls == lastOp'.calls
              off == IF s.enabled THEN n ELSE 0
          IN  /\ ~lastOp'.threw
              /\ Len(calls) = off + n
              /\ \A k \in 1 .. off :
                    /\ calls[k].fn = "ControlStream"
                    /\ ~calls[k].on
                    /\ calls[k].id = s.streamID[k]
              /\ \A k \in 1 .. n :
                    /\ calls[off + k].fn = "CloseStream"
                    /\ calls[off + k].id = s.streamID[k]
                    /\ ~conn'[s.streamID[k]].open]_vars

\* an enabled two-channel stream has been closed although its
\* ControlStream(disable) calls failed
C15_Witness ==
    /\ lastOp.op = "close"
    /\ Len(lastOp.calls) = 4
    /\ ~lastOp.calls[1].ok
    /\ ~lastOp.calls[2].ok
    /\ lastOp.calls[3].fn = "CloseStream"
    /\ streams[lastOp.h].enabled

\* C18: when activateStream enables a stream that is not yet enabled, the
\* ControlStream(enable) calls go channel by channel and stop at the first
\* failure: the call returns StreamError at once, no later channel is
\* enabled, the channels already enabled are not disabled again, and
\* enabled stays false, with the pending calibration set already drained
\* and the command already recorded. enabled becomes true only when the
\* enable of every channel succeeded.
C18_PartialActivation ==
    [][(IsActivate /\ ~lastOp'.threw /\ ~streams[lastOp'.h].enabled) =>
          LET s == streams[lastOp'.h]
              n == Len(s.streamID)
              calls == lastOp'.calls
              m == Len(calls)
          IN  /\ m \in 1 .. n
              /\ \A k \in 1 .. m :
                    /\ calls[k].fn = "ControlStream"
                    /\ calls[k].on
                    /\ calls[k].id = s.streamID[k]
                    /\ (k < m => calls[k].ok)
                    /\ (calls[k].ok => conn'[s.streamID[k]].running)
              /\ channelsToCal' = {}
              /\ streams'[lastOp'.h].hasCmd
              /\ streams'[lastOp'.h].enabled = (m = n /\ calls[m].ok)
              /\ IF calls[m].ok
                 THEN m = n /\ ctlRet' = 0
                 ELSE /\ ctlRet' = SOAPY_SDR_STREAM_ERROR
                      /\ conn'[s.streamID[m]].running = conn[s.streamID[m]].running
                      /\ \A k \in m + 1 .. n :
                            conn'[s.streamID[k]].running =
                                conn[s.streamID[k]].running]_vars

\* ControlStream(enable) succeeded on the first channel and failed on the
\* second: the first channel runs, the stream is not enabled, the pairs
\* are calibrated and the command is recorded
C18_Witness ==
    /\ lastOp.op = "activate"
    /\ ~lastOp.threw
    /\ Len(lastOp.calls) = 2
    /\ lastOp.calls[1].ok
    /\ ~lastOp.calls[2].ok
    /\ conn[lastOp.calls[1].id].running
    /\ ~conn[lastOp.calls[2].id].running
    /\ ~streams[lastOp.h].enabled
    /\ streams[lastOp.h].hasCmd
    /\ channelsToCal = {}
    /\ \E p \in Pairs : calSince[p] = 1
    /\ ctlRet = SOAPY_SDR_STREAM_ERROR

\* C19: an activateStream on a stream that is already enabled issues no
\* ControlStream call and still drains the pending calibration set; a
\* deactivateStream on a stream that is not enabled issues no
\* ControlStream call; and enabled changes only from false to true in an
\* activateStream of that stream and from true to false in a
\* deactivateStream of that stream: no other call changes it.
C19_EnabledTransitions ==
    [][/\ (IsActivate /\ ~lastOp'.threw /\ streams[lastOp'.h].enabled) =>
            /\ lastOp'.calls = <<>>
            /\ conn' = conn
            /\ channelsToCal' = {}
            /\ \A p \in channelsToCal : calSince'[p] = calSince[p] + 1
       /\ (IsDeactivate /\ ~streams[lastOp'.h].enabled) =>
            /\ lastOp'.calls = <<>>
            /\ conn' = conn
       /\ \A h \in Handles :
            (streams'[h].enabled # streams[h].enabled) =>
                \/ IsActivate /\ lastOp'.h = h /\ streams'[h].enabled
                \/ IsDeactivate /\ lastOp'.h = h /\ ~streams'[h].enabled]_vars

\* an enabled stream has been activated again without any ControlStream
\* call, and the pairs of a second stream that has never run are calibrated
C19_Witness ==
    /\ lastOp.op = "activate"
    /\ ~lastOp.threw
    /\ lastOp.calls = <<>>
    /\ streams[lastOp.h].enabled
    /\ nStreams = 2
    /\ channelsToCal = {}
    /\ \E h \in Handles \ {lastOp.h} :
          /\ ~streams[h].enabled
          /\ ~streams[h].hasCmd
          /\ HandlePairs(h) \cap HandlePairs(lastOp.h) = {}
          /\ \A p \in HandlePairs(h) : calSince[p] = 1
          /\ \A k \in 1 .. Len(streams[h].streamID) :
                ~conn[streams[h].streamID[k]].running

\* a step in which _readStreamAligned receives one segment from the transport
IsSegment == pc = "aligned" /\ nReads' = nReads + 1

\* the timestamp of the segment just received is what md holds while the
\* loop goes on and when it returns Corruption
SegmentSeen == pc' = "aligned" \/ alignStatus' = SOAPY_SDR_CORRUPTION

\* C20: with a request time R other than zero, a segment stamped earlier
\* than the expected R + written[i] yields Corruption when the channel
\* already holds data; when the channel is empty its leading
\* min(R - timestamp, elements read) elements are discarded, so that what
\* is left starts at R, and when the channel is channel 0 and something is
\* left the target becomes the count left, channel 0 is complete and the
\* loop moves on; the channels before the current one stay complete at
\* the target, and a read that ends on channel 1 without a change of R
\* returns a count that every channel holds, starting at R.
C20_EarlyArrival ==
    [][(IsSegment /\ requestTime # 0) =>
          LET i == chanIdx
              R == requestTime
              prevN == numWritten[i]
              ts == md'.timestamp
              e == hwTime'[RdId] - ts
              drop == Min(R - ts, e)
              left == e - drop
          IN  /\ (SegmentSeen /\ prevN # 0 /\ ts < R + prevN) =>
                    /\ pc' = "post"
                    /\ alignStatus' = SOAPY_SDR_CORRUPTION
              /\ (SegmentSeen /\ prevN = 0 /\ ts < R) =>
                    /\ numWritten' = [numWritten EXCEPT ![i] = left]
                    /\ buffs' = [buffs EXCEPT ![i] = Segment(R, left)]
                    /\ requestTime' = R
                    /\ numElems' = IF i = 0 /\ left # 0 THEN left ELSE numElems
                    /\ (i = 0 /\ left # 0 => chanIdx' = 1)
                    /\ (\A j \in 0 .. i - 1 : numWritten[j] = numElems) =>
                          (\A j \in 0 .. chanIdx' - 1 :
                              numWritten'[j] = numElems')
              /\ (/\ pc' = "post"
                  /\ alignStatus' >= 0
                  /\ requestTime' = R
                  /\ numWritten[0] = numElems) =>
                    /\ alignStatus' = numElems
                    /\ \A j \in DOMAIN numWritten' :
                          /\ numWritten'[j] = alignStatus'
                          /\ Len(buffs'[j]) = alignStatus'
                          /\ buffs'[j][1] = R]_vars

\* channel 0 was empty and received two elements of which the first came
\* before the request time: one is left, the target is one and the loop is
\* at channel 1
C20_Witness ==
    /\ pc = "aligned"
    /\ nReads = 1
    /\ chanIdx = 1
    /\ requestTime # 0
    /\ requestTime = cmdTicks
    /\ md.timestamp < requestTime
    /\ hwTime[RdS.streamID[1]] - md.timestamp = 2
    /\ numWritten[0] = 1
    /\ numElems = 1
    /\ buffs[0] = <<requestTime>>

\* the report r makes the loop of readStreamStatus on a stream of
\* direction dir stop
IsEvent(r, dir) ==
    \/ r.ev.endOfBurst
    \/ r.ev.lateTimestamp
    \/ r.ev.packetDropped /\ dir = SOAPY_SDR_RX

\* C16: a round of readStreamStatus polls the channels in order and stops
\* at the first whose report has end-of-burst, late-timestamp or, on an RX
\* stream only, dropped-packet set: no later channel is polled in that
\* round.  The call then returns TimeError when the report has
\* late-timestamp set, whether dropped-packet is set or not, otherwise
\* Overflow when dropped-packet is set, otherwise 0, with END_BURST and
\* HAS_TIME in flags as the report has them.  On a TX stream a report with
\* dropped-packet alone does not stop the round and the call never returns
\* Overflow.  A failing ReadStreamStatus ends the call with NotSupported
\* when the transport reports EPERM, Timeout otherwise.
C16_StatusMapping ==
    LET s == streams[stStream]
        n == Len(s.streamID)
        m == Len(stPolled)
        last == stPolled[m]
    IN  (stStream \in 1 .. nStreams /\ m > 0) =>
          /\ m \in 1 .. n
          /\ \A k \in 1 .. m :
                /\ stPolled[k].id = s.streamID[k]
                /\ k < m => (stPolled[k].ok /\ ~IsEvent(stPolled[k], s.direction))
          /\ stOutcome = "event" =>
                /\ stPc = "done"
                /\ last.ok /\ IsEvent(last, s.direction)
                /\ stRet = (IF last.ev.lateTimestamp
                            THEN SOAPY_SDR_TIME_ERROR
                            ELSE IF last.ev.packetDropped
                                    /\ s.direction = SOAPY_SDR_RX
                            THEN SOAPY_SDR_OVERFLOW
                            ELSE 0)
                /\ (END_BURST \in stFlags) = last.ev.endOfBurst
                /\ (HAS_TIME \in stFlags) = last.ev.hasTimestamp
          /\ stOutcome = "fail" =>
                /\ stPc = "done"
                /\ ~last.ok
                /\ stRet = (IF last.eperm THEN SOAPY_SDR_NOT_SUPPORTED
                            ELSE SOAPY_SDR_TIMEOUT)
          /\ stOutcome = "none" =>
                /\ m = n
                /\ last.ok /\ ~IsEvent(last, s.direction)
          /\ (s.direction = SOAPY_SDR_TX /\ stPc = "done") =>
                stRet # SOAPY_SDR_OVERFLOW

\* on a two-channel TX stream the first channel reported a dropped packet
\* alone and the poll went on; the second reported end-of-burst together
\* with a dropped packet and the call returned 0 with END_BURST
C16_Witness ==
    /\ stPc = "done"
    /\ stOutcome = "event"
    /\ streams[stStream].direction = SOAPY_SDR_TX
    /\ Len(stPolled) = 2
    /\ stPolled[1].ev.packetDropped
    /\ stPolled[2].ev.packetDropped
    /\ stPolled[2].ev.endOfBurst
    /\ ~stPolled[2].ev.lateTimestamp
    /\ stRet = 0
    /\ END_BURST \in stFlags

(***************************************************************************)
(* SpecLock: two application threads calling setupStream and               *)
(* activateStream on one device.  Each call is a sequence of steps: the    *)
(* construction of the unique_lock on _accessMutex, the statements of the  *)
(* body that touch _channelsToCal one at a time, and the destruction of    *)
(* the lock when the call returns or throws.                               *)
(***************************************************************************)
\* _channelsToCal.begin(): the least pair of the std::set
Begin(S) == CHOOSE p \in S : \A q \in S : PairRank(p) <= PairRank(q)

\* a lock that lets every thread in
LockIgnored(owner) == TRUE

\* std::unique_lock<std::recursive_mutex> lock(_accessMutex) can be
\* constructed by a thread that does not own the mutex yet
LockFree(owner) == owner = NoThread

\* setupStream: the lock is taken
SetupEnter(t, direction, channels) ==
    /\ pc = "idle"
    /\ thPc[t] = "idle"
    /\ LockFree(lockOwner)
    /\ nStreams < MaxStreams
    /\ nConn + Len(channels) <= 2 * MaxStreams
    /\ lockOwner' = t
    /\ thPc' = [thPc EXCEPT ![t] = "transport"]
    /\ thArg' = [thArg EXCEPT ![t] =
                    [NoArg EXCEPT !.op = "setup", !.direction = direction,
                                  !.channels = channels]]
    /\ UNCHANGED <<ctlVars, hwTime, rdVars, obsVars, ioVars>>

\* setupStream: the loop of transport SetupStream calls, the failAt-th
\* failing
SetupTransport(t, failAt) ==
    LET a == thArg[t]
        n == Len(a.channels)
        made == Min(failAt - 1, n)
    IN  /\ thPc[t] = "transport"
        /\ failAt \in 1 .. n + 1
        /\ conn' = [id \in ConnIds |->
                      IF id \in nConn + 1 .. nConn + made
                      THEN [open |-> TRUE, size |-> MaxElems, running |-> FALSE,
                            dir |-> a.direction,
                            channel |-> a.channels[id - nConn]]
                      ELSE conn[id]]
        /\ nConn' = nConn + made
        /\ IF failAt <= n
           THEN /\ thPc' = [thPc EXCEPT ![t] = "release"]
                /\ thArg' = [thArg EXCEPT ![t].threw = TRUE]
                /\ ctlRet' = "throw"
                /\ lastOp' = [op |-> "setup", h |-> 0, format |-> "CS16",
                              threw |-> TRUE, cmd |-> NoCmd,
                              calls |-> SetupCalls(nConn, n, failAt)]
           ELSE /\ thPc' = [thPc EXCEPT ![t] = "emplace"]
                /\ thArg' = [thArg EXCEPT
                                ![t].ids = [k \in 1 .. n |-> nConn + k]]
                /\ UNCHANGED <<ctlRet, lastOp>>
        /\ UNCHANGED <<streams, nStreams, channelsToCal, hwRate, calSince,
                       uncal, pendingAtEnable, uncalAtEnable, lockOwner,
                       hwTime, rdVars, obsVars, ioVars>>

\* setupStream: one _channelsToCal.emplace(direction, ch)
SetupEmplace(t) ==
    LET a == thArg[t]
        p == <<a.direction, a.channels[a.k + 1]>>
    IN  /\ thPc[t] = "emplace"
        /\ channelsToCal' = channelsToCal \cup {p}
        /\ calSince' = [calSince EXCEPT ![p] = 0]
        /\ uncal' = uncal \cup {p}
        /\ thArg' = [thArg EXCEPT ![t].k = a.k + 1]
        /\ thPc' = [thPc EXCEPT ![t] =
                       IF a.k + 1 = Len(a.channels) THEN "return" ELSE "emplace"]
        /\ UNCHANGED <<lastOp, streams, nStreams, hwRate, conn, nConn, ctlRet,
                       pendingAtEnable, uncalAtEnable, lockOwner, hwTime,
                       rdVars, obsVars, ioVars>>

\* setupStream: return (SoapySDR::Stream *)stream
SetupReturn(t) ==
    LET a == thArg[t]
        h == nStreams + 1
    IN  /\ thPc[t] = "return"
        /\ streams' = [streams EXCEPT ![h] =
                          [streamID |-> a.ids, direction |-> a.direction,
                           elemSize |-> FormatToSize("CS16"),
                           elemMTU |-> MaxElems, enabled |-> FALSE,
                           hasCmd |-> FALSE, flags |-> {}, timeNs |-> 0,
                           numElems |-> 0]]
        /\ nStreams' = h
        /\ ctlRet' = h
        /\ lastOp' = [op |-> "setup", h |-> h, format |-> "CS16",
                      threw |-> FALSE, cmd |-> NoCmd,
                      calls |-> SetupCalls(a.ids[1] - 1, Len(a.ids),
                                           Len(a.ids) + 1)]
        /\ thPc' = [thPc EXCEPT ![t] = "release"]
        /\ UNCHANGED <<channelsToCal, hwRate, conn, nConn, calSince, uncal,
                       pendingAtEnable, uncalAtEnable, lockOwner, thArg,
                       hwTime, rdVars, obsVars, ioVars>>

\* activateStream: the lock is taken and the rate is checked
ActivateEnter(t, h) ==
    /\ pc = "idle"
    /\ thPc[t] = "idle"
    /\ LockFree(lockOwner)
    /\ h \in 1 .. nStreams
    /\ lockOwner' = t
    /\ thPc' = [thPc EXCEPT ![t] =
                   IF RateConfigured(hwRate) THEN "cal" ELSE "tail"]
    /\ thArg' = [thArg EXCEPT ![t] = [NoArg EXCEPT !.op = "activate", !.h = h]]
    /\ UNCHANGED <<ctlVars, hwTime, rdVars, obsVars, ioVars>>

\* activateStream: the loop finds _channelsToCal not empty, reads begin()
\* and calibrates that pair; thr: _actualBw.at() throws
ActivateCalibrate(t, thr) ==
    LET p == Begin(channelsToCal)
    IN  /\ thPc[t] = "cal"
        /\ channelsToCal # {}
        /\ IF thr
           THEN /\ thPc' = [thPc EXCEPT ![t] = "release"]
                /\ thArg' = [thArg EXCEPT ![t].threw = TRUE]
                /\ ctlRet' = "throw"
                /\ lastOp' = [op |-> "activate", h |-> thArg[t].h,
                              format |-> "", threw |-> TRUE,
                              cmd |-> NoCmd, calls |-> <<>>]
                /\ UNCHANGED <<calSince, uncal>>
           ELSE /\ thPc' = [thPc EXCEPT ![t] = "erase"]
                /\ thArg' = [thArg EXCEPT ![t].pick = p]
                /\ calSince' = [calSince EXCEPT ![p] = calSince[p] + 1]
                /\ uncal' = uncal \ {p}
                /\ UNCHANGED <<ctlRet, lastOp>>
        /\ UNCHANGED <<streams, nStreams, channelsToCal, hwRate, conn, nConn,
                       pendingAtEnable, uncalAtEnable, lockOwner, hwTime,
                       rdVars, obsVars, ioVars>>

\* activateStream: _channelsToCal.erase(_channelsToCal.begin())
ActivateErase(t) ==
    /\ thPc[t] = "erase"
    /\ channelsToCal' = IF channelsToCal = {} THEN {}
                        ELSE channelsToCal \ {Begin(channelsToCal)}
    /\ thPc' = [thPc EXCEPT ![t] = "cal"]
    /\ UNCHANGED <<lastOp, streams, nStreams, hwRate, conn, nConn, ctlRet,
                   calSince, uncal, pendingAtEnable, uncalAtEnable, lockOwner,
                   thArg, hwTime, rdVars, obsVars, ioVars>>

\* activateStream from the end of the calibration loop, or from the rate
\* check that throws, to its return
ActivateTail(t, failAt) ==
    /\ \/ thPc[t] = "cal" /\ channelsToCal = {}
       \/ thPc[t] = "tail"
    /\ ActivateStream(thArg[t].h, {}, 0, 0, NoPair, failAt)
    /\ thPc' = [thPc EXCEPT ![t] = "release"]
    /\ thArg' = [thArg EXCEPT ![t].threw = ~RateConfigured(hwRate)]
    /\ UNCHANGED lockOwner

\* the unique_lock goes out of scope
Release(t) ==
    /\ thPc[t] = "release"
    /\ lockOwner' = IF lockOwner = t THEN NoThread ELSE lockOwner
    /\ thPc' = [thPc EXCEPT ![t] = "idle"]
    /\ thArg' = [thArg EXCEPT ![t] = NoArg]
    /\ UNCHANGED <<ctlVars, hwTime, rdVars, obsVars, ioVars>>

\* one RX stream of one or two channels is set up and waits for its
\* activateStream
InitLock ==
    /\ \E N \in 1 .. 2 :
        /\ streams = [h \in Handles |->
                IF h = 1
                THEN [streamID |-> [k \in 1 .. N |-> k],
                      direction |-> SOAPY_SDR_RX,
                      elemSize |-> FormatToSize("CS16"), elemMTU |-> MaxElems,
                      enabled |-> FALSE, hasCmd |-> FALSE, flags |-> {},
                      timeNs |-> 0, numElems |-> 0]
                ELSE NoStream]
        /\ conn = [id \in ConnIds |->
                     IF id \in 1 .. N
                     THEN [open |-> TRUE, size |-> MaxElems, running |-> FALSE,
                           dir |-> SOAPY_SDR_RX, channel |-> id - 1]
                     ELSE NoConn]
        /\ nConn = N
        /\ channelsToCal = {<<SOAPY_SDR_RX, k - 1>> : k \in 1 .. N}
        /\ uncal = {<<SOAPY_SDR_RX, k - 1>> : k \in 1 .. N}
    /\ nStreams = 1
    /\ hwRate \in {0, RateMHz}
    /\ hwTime = [id \in ConnIds |-> 0]
    /\ ctlRet = 1
    /\ calSince = [p \in Pairs |-> 0]
    /\ pendingAtEnable = {}
    /\ uncalAtEnable = {}
    /\ lastOp = NoOp
    /\ ReaderIdle
    /\ LockIdle

SetupBegin ==
    \E t \in Threads, direction \in Dirs, channels \in {<<0>>, <<1>>, <<0, 1>>} :
        SetupEnter(t, direction, channels)

SetupLoop == \E t \in Threads, failAt \in 1 .. 3 : SetupTransport(t, failAt)

SetupRegister == \E t \in Threads : SetupEmplace(t)

SetupEnd == \E t \in Threads : SetupReturn(t)

ActivateBegin == \E t \in Threads, h \in Handles : ActivateEnter(t, h)

ActivatePick == \E t \in Threads, thr \in BOOLEAN : ActivateCalibrate(t, thr)

ActivatePop == \E t \in Threads : ActivateErase(t)

ActivateEnd == \E t \in Threads, failAt \in 1 .. 3 : ActivateTail(t, failAt)

Unlock == \E t \in Threads : Release(t)

NextLock ==
    \/ SetupBegin
    \/ SetupLoop
    \/ SetupRegister
    \/ SetupEnd
    \/ ActivateBegin
    \/ ActivatePick
    \/ ActivatePop
    \/ ActivateEnd
    \/ Unlock

SpecLock == InitLock /\ [][NextLock]_vars

\* C17: setupStream and activateStream called from different threads never
\* interleave inside their bodies, and so no pair put into the pending
\* calibration set is calibrated twice and none is lost: a pair is
\* calibrated at most once after its insertion, a pair inserted and not
\* yet calibrated is still pending, a calibrated pair is pending only
\* between its calibration and its erase, and an activateStream that
\* reaches its return leaves every inserted pair calibrated exactly once.
C17_LockedCalibration ==
    /\ \A t1 \in Threads, t2 \in Threads :
          (t1 # t2) => (thPc[t1] = "idle" \/ thPc[t2] = "idle")
    /\ \A t \in Threads : (thPc[t] # "idle") => lockOwner = t
    /\ \A p \in Pairs : calSince[p] <= 1
    /\ uncal \subseteq channelsToCal
    /\ \A p \in channelsToCal :
          (calSince[p] = 1) =>
              \E t \in Threads : thPc[t] = "erase" /\ thArg[t].pick = p
    /\ \A t \in Threads :
          (thPc[t] = "release" /\ thArg[t].op = "activate" /\ ~thArg[t].threw)
              => (channelsToCal = {} /\ uncal = {})

\* while the RX pairs of the first stream are still pending, a thread in
\* activateStream has calibrated the TX pair that a setupStream of the
\* other thread inserted, and is about to erase it
C17_Witness ==
    /\ lastOp.op = "setup"
    /\ ~lastOp.threw
    /\ nStreams = 2
    /\ thPc[1] = "erase"
    /\ thPc[2] = "idle"
    /\ thArg[1].pick[1] = SOAPY_SDR_TX
    /\ calSince[thArg[1].pick] = 1
    /\ \E p \in channelsToCal : p[1] = SOAPY_SDR_RX /\ calSince[p] = 0

(***************************************************************************)
(* SpecAlign: readStream and its alignment engine on an armed two-channel  *)
(* RX stream, with segments of up to MaxSeg elements, observed through     *)
(* rdReq, firstSeg and restarted.                                          *)
(***************************************************************************)
\* the command the stream was armed with
AlignCmds ==
    {[flags |-> {}, timeNs |-> 0]}
        \cup {[flags |-> {HAS_TIME}, timeNs |-> t] : t \in 0 .. MaxCmdNs}

InitAlign ==
    /\ \E cmd \in AlignCmds, burst \in {0, MaxBurst} :
        streams = [h \in Handles |->
            IF h = 1
            THEN [streamID |-> <<1, 2>>, direction |-> SOAPY_SDR_RX,
                  elemSize |-> FormatToSize("CS16"), elemMTU |-> MaxElems,
                  enabled |-> TRUE, hasCmd |-> TRUE, flags |-> cmd.flags,
                  timeNs |-> cmd.timeNs, numElems |-> burst]
            ELSE NoStream]
    /\ nStreams = 1
    /\ channelsToCal = {}
    /\ hwRate = RateMHz
    /\ conn = [id \in ConnIds |->
                 IF id \in {1, 2}
                 THEN [open |-> TRUE, size |-> MaxElems,
                       running |-> TRUE, dir |-> SOAPY_SDR_RX,
                       channel |-> id - 1]
                 ELSE NoConn]
    /\ nConn = 2
    /\ hwTime = [id \in ConnIds |-> 0]
    /\ ctlRet = 0
    /\ calSince = [p \in Pairs |-> IF p[1] = SOAPY_SDR_RX THEN 1 ELSE 0]
    /\ uncal = {}
    /\ pendingAtEnable = {}
    /\ uncalAtEnable = {}
    /\ lastOp = NoOp
    /\ ReaderIdle
    /\ LockIdle

\* the entry of readStream, the caller's arguments noted
ReadCallSeen ==
    /\ UNCHANGED lkVars
    /\ \E h \in Handles, n \in 0 .. MaxSeg, flags \in SUBSET {ONE_PACKET} :
          /\ ReadStreamCall(h, n, flags)
          /\ rdReq' = IF WaitsForCmd(streams[h]) THEN NoReq
                      ELSE [n |-> n, flags |-> flags]
    /\ firstSeg' = NoSeg
    /\ restarted' = FALSE
    /\ rearmed' = FALSE

\* one segment received, noted when it is the first of the call or takes
\* the "overflow in the middle" branch
ReadDataSeen ==
    /\ UNCHANGED <<lkVars, rdReq, rearmed>>
    /\ \E gap \in 0 .. MaxAlignGap, e \in 1 .. MaxXfer :
          /\ pc = "aligned"
          /\ hwTime[RdId] + gap + e - 1 <= MaxAlignTime
          /\ AlignedSegment(gap, e)
          /\ firstSeg' = IF firstSeg.e = 0
                         THEN [ts |-> hwTime[RdId] + gap, e |-> e]
                         ELSE firstSeg
          /\ restarted' =
                (restarted
                    \/ (/\ requestTime # 0
                        /\ hwTime[RdId] + gap > requestTime + numWritten[chanIdx]))

\* the return of readStream
FinishSeen ==
    /\ ReadStreamReturn
    /\ rdReq' = NoReq
    /\ firstSeg' = NoSeg
    /\ restarted' = FALSE
    /\ rearmed' = FALSE

NextAlign ==
    \/ ReadCallSeen
    \/ ReadDataSeen
    \/ AlignedTimeout
    \/ AlignedError
    \/ FinishSeen

SpecAlign == InitAlign /\ [][NextAlign]_vars

\* C21: a free-running aligned read that returns a count without having
\* met a segment later than expected returns the length of the first
\* segment it received, with the metadata timestamp equal to that
\* segment's timestamp, every channel holding that many elements starting
\* at that timestamp, whatever the first segment's timestamp was.
C21_FreeRunning ==
    (AlignedOk /\ cmdTicks = 0 /\ ~restarted) =>
        /\ alignStatus = firstSeg.e
        /\ md.timestamp = firstSeg.ts
        /\ \A c \in RdChans :
              /\ numWritten[c] = alignStatus
              /\ buffs[c][1] = firstSeg.ts

\* C22: a timed command is satisfied once.  When a readStream under a
\* HAS_TIME command gets data stamped with the commanded tick time, it
\* returns the count, removes HAS_TIME from the command and leaves hasCmd
\* set unless the burst completed with this call; the flag comes back only
\* with an activateStream; and a readStream entered without the flag runs
\* with request time 0 and does not return TimeError.
C22_TimedOnce ==
    [][/\ (/\ IsFinish
           /\ HAS_TIME \in Rx.flags
           /\ alignStatus >= 0
           /\ md.timestamp = cmdTicks) =>
            /\ ret' >= 0
            /\ HAS_TIME \notin Rx'.flags
            /\ Rx'.hasCmd = ~(Rx.numElems # 0 /\ Rx'.numElems = 0)
       /\ (HAS_TIME \in Rx'.flags /\ HAS_TIME \notin Rx.flags) => IsActivate
       /\ (IsReadCall /\ HAS_TIME \notin Rx.flags /\ pc' = "aligned") =>
            (cmdTicks' = 0 /\ requestTime' = 0)
       /\ (IsFinish /\ HAS_TIME \notin Rx.flags) =>
            ret' # SOAPY_SDR_TIME_ERROR]_vars

\* a command with a start time has been satisfied by a readStream and a
\* later readStream on the still armed stream has returned data read
\* free-running
C22_Witness ==
    /\ lastOp.op = "activate"
    /\ HAS_TIME \in lastOp.cmd.flags
    /\ lastOp.cmd.timeNs > 0
    /\ HAS_TIME \notin Rx.flags
    /\ Rx.hasCmd
    /\ pc = "post"
    /\ cmdTicks = 0
    /\ alignStatus >= 1
    /\ md.timestamp > TimeNsToTicks(lastOp.cmd.timeNs, hwRate)

\* C23: under a non-zero commanded tick time the reference time of the
\* aligned read starts at the commanded time and only moves forward, so a
\* count is never returned with a timestamp earlier than the commanded
\* time, and a readStream whose aligned read returned a count returns
\* that count or TimeError, never the alignment failure (StreamError).
C23_NeverEarlier ==
    /\ []((pc \in {"aligned", "post"} /\ cmdTicks # 0) =>
             requestTime >= cmdTicks)
    /\ []((AlignedOk /\ cmdTicks # 0) => md.timestamp >= cmdTicks)
    /\ [][(pc = "aligned" /\ pc' # "idle" /\ requestTime # 0) =>
             requestTime' >= requestTime]_vars
    /\ [][(IsFinish /\ alignStatus >= 0) =>
             ret' # SOAPY_SDR_STREAM_ERROR]_vars

\* under a commanded time the aligned read met a segment later than
\* expected after an early one and returns a count whose timestamp is
\* later than the commanded time
C23_Witness ==
    /\ pc = "post"
    /\ cmdTicks # 0
    /\ alignStatus >= 1
    /\ restarted
    /\ firstSeg.ts < cmdTicks
    /\ md.timestamp > cmdTicks

\* the count a readStream hands to _readStreamAligned
RdTarget ==
    IF ONE_PACKET \in rdReq.flags THEN Min(rdReq.n, RdS.elemMTU) ELSE rdReq.n

\* C27: inside _readStreamAligned every channel holds at most the current
\* target, so that numElems - written[i] does not underflow, and at most
\* the count the caller asked for, so that nothing is written past the
\* caller's buffers, also after the overflow restart has reset the target
\* to the size of the last segment.
C27_WithinTarget ==
    (pc \in {"aligned", "post"}) =>
        \A c \in RdChans :
            /\ numWritten[c] <= numElems
            /\ numWritten[c] <= RdTarget
            /\ Len(buffs[c]) <= RdTarget

C25_FirstChannel ==
    \A h \in 1 .. nStreams :
        streams[h].streamID # <<>> =>
            getStreamMTU(h) = GetStreamSize(streams[h].streamID[1])

\* C25: getStreamMTU returns the size GetStreamSize reported for the stream
\* of the last channel of the handle, also when the other channels report
\* other sizes, and the value never changes after setupStream.
C25_LastChannel ==
    /\ [](\A h \in 1 .. nStreams :
            streams[h].streamID # <<>> =>
                getStreamMTU(h) =
                    GetStreamSize(streams[h].streamID[Len(streams[h].streamID)]))
    /\ [][\A h \in 1 .. nStreams : getStreamMTU(h)' = getStreamMTU(h)]_vars

\* a handle set up by setupStream whose two channels report different sizes
C25_Witness ==
    /\ lastOp.op = "setup"
    /\ lastOp.h # 0
    /\ Len(streams[lastOp.h].streamID) = 2
    /\ GetStreamSize(streams[lastOp.h].streamID[1])
          # GetStreamSize(streams[lastOp.h].streamID[2])

(***************************************************************************)
(* SpecFF: fastForward applied to a channel buffer.  The buffer is the     *)
(* one of channel 0 with numWritten[0] elements, requestTime is its head  *)
(* time, and firstSeg keeps the head time and the count it started with.  *)
(***************************************************************************)
\* the buffers fastForward is tried on: up to MaxSeg elements
FFBuffers == UNION {[1 .. c -> 0 .. MaxElems] : c \in 0 .. MaxSeg}

InitFF ==
    /\ streams = [h \in Handles |->
            IF h = 1
            THEN [streamID |-> <<1, 2>>, direction |-> SOAPY_SDR_RX,
                  elemSize |-> FormatToSize("CS16"), elemMTU |-> MaxElems,
                  enabled |-> TRUE, hasCmd |-> TRUE, flags |-> {},
                  timeNs |-> 0, numElems |-> 0]
            ELSE NoStream]
    /\ nStreams = 1
    /\ channelsToCal = {}
    /\ hwRate = RateMHz
    /\ conn = [id \in ConnIds |->
                 IF id \in {1, 2}
                 THEN [open |-> TRUE, size |-> MaxElems,
                       running |-> TRUE, dir |-> SOAPY_SDR_RX,
                       channel |-> id - 1]
                 ELSE NoConn]
    /\ nConn = 2
    /\ hwTime = [id \in ConnIds |-> 0]
    /\ ctlRet = 0
    /\ calSince = [p \in Pairs |-> IF p[1] = SOAPY_SDR_RX THEN 1 ELSE 0]
    /\ uncal = {}
    /\ pendingAtEnable = {}
    /\ uncalAtEnable = {}
    /\ lastOp = NoOp
    /\ LockIdle
    /\ pc = "aligned"
    /\ rdStream = 1
    /\ cmdTicks = 0
    /\ numElems = MaxSeg
    /\ chanIdx = 0
    /\ \E b \in FFBuffers, old \in 0 .. MaxTime :
          /\ buffs = [c \in {0, 1} |-> IF c = 0 THEN b ELSE <<>>]
          /\ numWritten = [c \in {0, 1} |-> IF c = 0 THEN Len(b) ELSE 0]
          /\ requestTime = old
          /\ firstSeg = [ts |-> old, e |-> Len(b)]
    /\ md = NewMetadata
    /\ alignStatus = SOAPY_SDR_TIMEOUT
    /\ ret = 0
    /\ retFlags = {}
    /\ nReads = 0
    /\ zeroRead = FALSE
    /\ rdHadCmd = FALSE
    /\ overrun = <<0, 0>>
    /\ rdReq = NoReq
    /\ restarted = FALSE
    /\ rearmed = FALSE
    /\ armedK = 0
    /\ delivered = 0
    /\ stale = FALSE
    /\ wrLog = <<>>
    /\ wrRet = 0
    /\ stPc = "idle"
    /\ stStream = 1
    /\ stTimeoutUs = 0
    /\ stElapsed = 0
    /\ stRet = 0
    /\ stFlags = {}
    /\ stOutcome = "none"
    /\ stPolled = <<>>

\* fastForward(buffs[0], numWritten[0], elemSize, requestTime, desired)
FastForwardStep ==
    \E desired \in 0 .. MaxTime :
        LET r == FastForward(buffs[0], numWritten[0], requestTime, desired)
        IN  /\ buffs' = [buffs EXCEPT ![0] = r.buff]
            /\ numWritten' = [numWritten EXCEPT ![0] = r.numWritten]
            /\ requestTime' = desired
            /\ UNCHANGED <<ctlVars, hwTime, obsVars, ioVars, lkVars, pc,
                           rdStream, cmdTicks, numElems, chanIdx, md,
                           alignStatus, ret, retFlags, nReads, zeroRead,
                           rdHadCmd, overrun, seenVars>>

NextFF == FastForwardStep

SpecFF == InitFF /\ [][NextFF]_vars

\* the unsigned difference desiredHeadTime - oldHeadTime, clamped to c
FFPop(c, old, desired) == Min(SizeSub(desired, old), c)

\* C26: fastForward removes exactly min(d, c) elements from the front,
\* leaves the other c - min(d, c) at the start in their order and sets the
\* count to c - min(d, c); with d = 0 it changes nothing, and applying it
\* once more with d = 0 changes nothing either.
C26_FastForward ==
    /\ [](\A desired \in 0 .. MaxTime :
            LET c == numWritten[0]
                m == FFPop(c, requestTime, desired)
                r == FastForward(buffs[0], c, requestTime, desired)
                again == FastForward(r.buff, r.numWritten, desired, desired)
            IN  /\ m <= c
                /\ r.numWritten = c - m
                /\ Len(r.buff) = c - m
                /\ \A k \in 1 .. c - m : r.buff[k] = buffs[0][k + m]
                /\ desired = requestTime =>
                      (r.buff = buffs[0] /\ r.numWritten = c)
                /\ again = r)
    /\ [][LET c == numWritten[0]
              m == FFPop(c, requestTime, requestTime')
          IN  /\ numWritten'[0] = c - m
              /\ buffs'[0] = SubSeq(buffs[0], m + 1, c)]_vars

\* three elements were held, fastForward by two ticks has left the third
C26_Witness ==
    /\ firstSeg.e = 3
    /\ requestTime = firstSeg.ts + 2
    /\ numWritten[0] = 1
    /\ Len(buffs[0]) = 1

\* C28: while a readStream of at least one element is inside
\* _readStreamAligned, the ReadStream it is about to issue never asks for 0
\* elements, i.e. is never for a channel that already holds the target.
C28_NoEmptyRead ==
    (pc = "aligned" /\ rdReq.n > 0) =>
        ReadCount(numElems, numWritten[chanIdx]) # 0

(***************************************************************************)
(* SpecRace: readStream takes no lock, so the control thread's            *)
(* activateStream can store a new command while a readStream is between   *)
(* its entry and its return.                                               *)
(***************************************************************************)
\* activateStream on the stream being read, the call still in flight
Rearm ==
    /\ pc \in {"aligned", "post"}
    /\ ~rearmed
    /\ \E cmd \in AlignCmds, burst \in {0, MaxBurst} :
          ActivateArm(rdStream, cmd.flags, cmd.timeNs, burst, NoPair,
                      Len(RdS.streamID) + 1)
    /\ rearmed' = TRUE
    /\ UNCHANGED <<rdReq, firstSeg, restarted, lkVars>>

NextRace ==
    \/ ReadCallSeen
    \/ ReadData
    \/ AlignedTimeout
    \/ AlignedError
    \/ FinishSeen
    \/ Rearm

SpecRace == InitAlign /\ [][NextRace]_vars

\* C29: the return of a readStream that was in flight when activateStream
\* stored a new command leaves that command as activateStream stored it:
\* HAS_TIME is not cleared, the burst count is not reduced and hasCmd stays
\* true.
C29_RearmedIntact ==
    [][(IsFinish /\ rearmed) =>
          /\ streams'[rdStream].flags = streams[rdStream].flags
          /\ streams'[rdStream].numElems = streams[rdStream].numElems
          /\ streams'[rdStream].hasCmd]_vars

\* C30: when closeStream is called, every channel stream of the handle
\* that is running (its last successful ControlStream was an enable) gets
\* a ControlStream(disable) before its CloseStream, also after an
\* activateStream or deactivateStream that failed part-way.
C30_StoppedBeforeClose ==
    [][IsClose =>
          LET s == streams[lastOp'.h]
              calls == lastOp'.calls
          IN  \A k \in 1 .. Len(s.streamID) :
                  conn[s.streamID[k]].running =>
                      \E j \in 1 .. Len(calls) :
                          /\ calls[j].fn = "ControlStream"
                          /\ ~calls[j].on
                          /\ calls[j].id = s.streamID[k]
                          /\ \A m \in 1 .. j :
                                ~(/\ calls[m].fn = "CloseStream"
                                  /\ calls[m].id = s.streamID[k])]_vars

\* C31: a setupStream whose transport SetupStream fails after at least one
\* channel of the call was set up returns no handle, leaves the streams
\* and the pending calibration set as they were, and leaves open no
\* transport stream that was not open before the call.
C31_FailedSetupReservesNothing ==
    [][(/\ IsSetup
        /\ lastOp'.threw
        /\ Len(lastOp'.calls) >= 2
        /\ ~lastOp'.calls[Len(lastOp'.calls)].ok) =>
          /\ lastOp'.h = 0
          /\ nStreams' = nStreams
          /\ streams' = streams
          /\ channelsToCal' = channelsToCal
          /\ \A id \in ConnIds : conn'[id].open => conn[id].open]_vars

\* the pending command of a handle: hasCmd, flags, start time, burst count
PendingCmd(s) ==
    [hasCmd |-> s.hasCmd, flags |-> s.flags, timeNs |-> s.timeNs,
     numElems |-> s.numElems]

\* C32: a readStream that returns Timeout, StreamError or Corruption leaves
\* the pending command (hasCmd, flags, start time, burst count) as it was;
\* a readStream that returns an error and changes the command returns
\* TimeError; and the burst count is reduced only by a readStream that
\* returns a count, by exactly that count.
C32_ErrorsKeepCommand ==
    [][IsFinish =>
          LET before == PendingCmd(streams[rdStream])
              after == PendingCmd(streams'[rdStream])
          IN  /\ ret' \in {SOAPY_SDR_TIMEOUT, SOAPY_SDR_STREAM_ERROR,
                           SOAPY_SDR_CORRUPTION} => after = before
              /\ (ret' < 0 /\ after # before) =>
                    /\ ret' = SOAPY_SDR_TIME_ERROR
                    /\ after = [before EXCEPT !.hasCmd = FALSE]
              /\ after.numElems # before.numElems =>
                    /\ ret' >= 0
                    /\ before.numElems - after.numElems = ret']_vars

\* a readStream that found a timed burst command has returned Corruption
\* and the command is still whole
C32_Witness ==
    /\ pc = "idle"
    /\ rdHadCmd
    /\ ret = SOAPY_SDR_CORRUPTION
    /\ streams[rdStream].hasCmd
    /\ HAS_TIME \in streams[rdStream].flags
    /\ streams[rdStream].numElems = MaxBurst
=============================================================================
